---- MODULE Spec2Model ----
(***************************************************************************)
(* Model of the Trustap SDK client core (createTrustapClientCore), of the  *)
(* Web-standard transport (DenoHttpClient) and of the helpers they use.    *)
(*                                                                         *)
(* JavaScript strings are TLA+ strings (Len, SubSeq and \o act on their    *)
(* characters).  Every other JavaScript value is a tagged record:          *)
(*   [t |-> "undefined"], [t |-> "null"], [t |-> "str", v |-> "..."],      *)
(*   [t |-> "obj", o |-> f]  with f a function from own keys to values,    *)
(*   [t |-> "plain"]         an object without a usable toString,          *)
(*   [t |-> "fn", ...]       a handler closure.                            *)
(***************************************************************************)
EXTENDS Integers, Sequences, FiniteSets, Bags, TLC

VARIABLES
  basePath,        \* closure variable basePath of createTrustapClientCore
  baseUrl,         \* resolvedBaseUrl handed to createClient
  pathClientKind,  \* which wrapAsPathBasedClient built pathClient
  target,          \* own properties of the Proxy target of byOperationId
  built,           \* per operation id: number of handlers constructed
  last,            \* outcome of the most recent property read or invocation
  callCount,       \* number of calls made on the transport so far
  basicAuth,       \* options.basicAuth
  hasGetAccessToken, \* whether options.getAccessToken is configured
  authOverrides,   \* options.authOverrides
  compiledSecurityMap, \* compileSecurityMap(deps.securityMap)
  runtime,         \* which Base64 encoder the runtime offers
  cached,          \* closure variable cached of resolveBasicToken
  encodeCalls,     \* number of Base64 encodings performed
  requests,        \* bag of the requests in flight on the Web-standard transport
  middleware       \* middlewares registered on the transport after construction

vars == <<basePath, baseUrl, pathClientKind, target, built, last, callCount,
          basicAuth, hasGetAccessToken, authOverrides, compiledSecurityMap,
          runtime,
          cached, encodeCalls, requests, middleware>>

dispatchVars == <<target, built, last, callCount>>
configVars == <<basePath, baseUrl, pathClientKind, basicAuth,
                hasGetAccessToken, authOverrides, compiledSecurityMap,
                runtime, middleware>>
authVars == <<cached, encodeCalls, requests>>

(***************************************************************************)
(* Bounds                                                                  *)
(***************************************************************************)
MaxCalls == 2
MaxRequests == 2

(***************************************************************************)
(* JavaScript values                                                       *)
(***************************************************************************)
Undefined == [t |-> "undefined"]
Null == [t |-> "null"]
Str(s) == [t |-> "str", v |-> s]
Obj(f) == [t |-> "obj", o |-> f]
Num(n) == [t |-> "num", n |-> n]
Bool(b) == [t |-> "bool", b |-> b]
\* an object whose own toString returns s
Custom(s) == [t |-> "custom", s |-> s]
\* an object that only inherits Object.prototype.toString
PlainObject == [t |-> "plain"]
EmptyRec == [k \in {} |-> Undefined]

\* JavaScript truthiness of a value
Truthy(x) ==
  CASE x.t = "undefined" -> FALSE
    [] x.t = "null" -> FALSE
    [] x.t = "str" -> x.v # ""
    [] x.t = "num" -> x.n # 0
    [] x.t = "bool" -> x.b
    [] OTHER -> TRUE

IsObject(x) == x.t \in {"obj", "plain", "custom"}

\* property read on an object value: own key or undefined
Prop(x, k) ==
  IF x.t = "obj" /\ k \in DOMAIN x.o THEN x.o[k] ELSE Undefined

HasOwn(x, k) == x.t = "obj" /\ k \in DOMAIN x.o

\* { ...f, k: v }
WithKey(f, k, v) == [j \in DOMAIN f \cup {k} |-> IF j = k THEN v ELSE f[j]]

\* const { k, ...rest } = f
WithoutKey(f, k) == [j \in DOMAIN f \ {k} |-> f[j]]

(***************************************************************************)
(* Strings                                                                 *)
(***************************************************************************)
Ch(s, i) == SubSeq(s, i, i)
StartsWith(s, p) == Len(p) <= Len(s) /\ SubSeq(s, 1, Len(p)) = p
EndsWith(s, p) == Len(p) <= Len(s) /\ SubSeq(s, Len(s) - Len(p) + 1, Len(s)) = p
Slice(s, n) == SubSeq(s, n + 1, Len(s))
Includes(s, p) == \E i \in 1..Len(s) : StartsWith(Slice(s, i - 1), p)

Digits == {"0", "1", "2", "3", "4", "5", "6", "7", "8", "9"}
Whitespace == {" "}

Lower == "abcdefghijklmnopqrstuvwxyz"
Upper == "ABCDEFGHIJKLMNOPQRSTUVWXYZ"

UpperOf == [c \in {Ch(Lower, i) : i \in 1..26} |->
             Ch(Upper, CHOOSE i \in 1..26 : Ch(Lower, i) = c)]

UpperChar(c) == IF c \in DOMAIN UpperOf THEN UpperOf[c] ELSE c

RECURSIVE toUpperCase(_)
toUpperCase(s) ==
  IF s = "" THEN "" ELSE UpperChar(Ch(s, 1)) \o toUpperCase(Slice(s, 1))

RECURSIVE trimStart(_)
trimStart(s) ==
  IF Len(s) > 0 /\ Ch(s, 1) \in Whitespace THEN trimStart(Slice(s, 1)) ELSE s

RECURSIVE trimEnd(_)
trimEnd(s) ==
  IF Len(s) > 0 /\ Ch(s, Len(s)) \in Whitespace
  THEN trimEnd(SubSeq(s, 1, Len(s) - 1))
  ELSE s

trim(s) == trimEnd(trimStart(s))

\* value.replaceAll(/\/+/g, "/")
RECURSIVE collapseSlashes(_)
collapseSlashes(s) ==
  IF Len(s) < 2 THEN s
  ELSE IF Ch(s, 1) = "/" /\ Ch(s, 2) = "/" THEN collapseSlashes(Slice(s, 1))
  ELSE Ch(s, 1) \o collapseSlashes(Slice(s, 1))

RECURSIVE removeTrailingSlash(_)
removeTrailingSlash(value) ==
  IF Len(value) > 0 /\ Ch(value, Len(value)) = "/"
  THEN removeTrailingSlash(SubSeq(value, 1, Len(value) - 1))
  ELSE value

\* basePath is a string value or Undefined
normalizeBasePath(bp) ==
  IF ~Truthy(bp) THEN ""
  ELSE LET trimmed == trim(bp.v) IN
    IF trimmed = "" \/ trimmed = "/" THEN ""
    ELSE removeTrailingSlash(
           IF StartsWith(trimmed, "/") THEN trimmed ELSE "/" \o trimmed)

joinPaths(base, path) ==
  LET sanitizedBase == normalizeBasePath(Str(base))
      hasLeadingSlash == StartsWith(path, "/")
      relative == IF hasLeadingSlash THEN Slice(path, 1) ELSE path
  IN IF sanitizedBase = "" THEN
       (IF hasLeadingSlash THEN path ELSE "/" \o relative)
     ELSE IF relative = "" THEN sanitizedBase
     ELSE collapseSlashes(sanitizedBase \o "/" \o relative)

(***************************************************************************)
(* URL parsing and encoding                                                *)
(***************************************************************************)
\* index of the first occurrence of character c in s at or after from, or 0
IndexFrom(s, c, from) ==
  IF \E i \in from..Len(s) : Ch(s, i) = c
  THEN CHOOSE i \in from..Len(s) :
         Ch(s, i) = c /\ \A j \in from..(i - 1) : Ch(s, j) # c
  ELSE 0

\* characters the URL parser percent-encodes in a pathname
PathEncode(c) ==
  CASE c = "{" -> "%7B"
    [] c = "}" -> "%7D"
    [] c = " " -> "%20"
    [] OTHER -> c

RECURSIVE encodePath(_)
encodePath(s) ==
  IF s = "" THEN "" ELSE PathEncode(Ch(s, 1)) \o encodePath(Slice(s, 1))

Protocols == {"https:", "http:"}

\* new URL(url): protocol, host and pathname, or a parse failure
parseURL(url) ==
  IF \E pr \in Protocols :
       /\ StartsWith(url, pr \o "//")
       /\ Len(url) > Len(pr) + 2
       /\ Ch(url, Len(pr) + 3) \notin {"/", "?"}
  THEN LET pr == CHOOSE q \in Protocols : StartsWith(url, q \o "//")
           hostStart == Len(pr) + 3
           slash == IndexFrom(url, "/", hostStart)
           quest == IndexFrom(url, "?", hostStart)
           pathStart == IF slash # 0 /\ (quest = 0 \/ slash < quest)
                        THEN slash ELSE 0
           hostEnd == IF pathStart # 0 THEN pathStart - 1
                      ELSE IF quest # 0 THEN quest - 1 ELSE Len(url)
           pathEnd == IF quest # 0 THEN quest - 1 ELSE Len(url)
       IN [ok |-> TRUE,
           protocol |-> pr,
           host |-> SubSeq(url, hostStart, hostEnd),
           pathname |-> IF pathStart = 0 THEN "/"
                        ELSE encodePath(SubSeq(url, pathStart, pathEnd))]
  ELSE [ok |-> FALSE, protocol |-> "", host |-> "", pathname |-> ""]

\* inferBaseConfig that prefers the path of apiUrl to the basePath option
inferBaseConfigInferredWins(apiUrl, providedBasePath) ==
  LET parsed == parseURL(apiUrl)
      inferredPath ==
        IF parsed.ok /\ parsed.pathname # "" /\ parsed.pathname # "/"
        THEN Str(removeTrailingSlash(parsed.pathname))
        ELSE Undefined
      parsedBase == IF parsed.ok THEN parsed.protocol \o "//" \o parsed.host
                    ELSE removeTrailingSlash(apiUrl)
  IN [baseUrl |-> removeTrailingSlash(parsedBase),
      basePath |-> normalizeBasePath(
        IF inferredPath # Undefined THEN inferredPath
        ELSE IF providedBasePath # Undefined THEN providedBasePath
        ELSE Str("/api/v4"))]

inferBaseConfig(apiUrl, providedBasePath) ==
  LET parsed == parseURL(apiUrl)
      inferredPath ==
        IF parsed.ok /\ parsed.pathname # "" /\ parsed.pathname # "/"
        THEN Str(removeTrailingSlash(parsed.pathname))
        ELSE Undefined
      parsedBase == IF parsed.ok THEN parsed.protocol \o "//" \o parsed.host
                    ELSE removeTrailingSlash(apiUrl)
  IN [baseUrl |-> removeTrailingSlash(parsedBase),
      basePath |-> normalizeBasePath(
        IF providedBasePath # Undefined THEN providedBasePath
        ELSE IF inferredPath # Undefined THEN inferredPath
        ELSE Str("/api/v4"))]

\* encodeURIComponent on the characters the model uses
ComponentEncode(c) ==
  CASE c = "/" -> "%2F"
    [] c = " " -> "%20"
    [] c = "{" -> "%7B"
    [] c = "}" -> "%7D"
    [] c = ":" -> "%3A"
    [] c = "?" -> "%3F"
    [] OTHER -> c

RECURSIVE encodeURIComponent(_)
encodeURIComponent(s) ==
  IF s = "" THEN ""
  ELSE ComponentEncode(Ch(s, 1)) \o encodeURIComponent(Slice(s, 1))

RECURSIVE NatToString(_)
NatToString(n) ==
  IF n < 10 THEN Ch("0123456789", n + 1)
  ELSE NatToString(n \div 10) \o Ch("0123456789", (n % 10) + 1)

(***************************************************************************)
(* Path templates                                                          *)
(***************************************************************************)
Ok(v) == [ok |-> TRUE, v |-> v]
Throw(e) == [ok |-> FALSE, v |-> e]

toPathParamSegment(key, value) ==
  CASE value.t = "str" -> Ok(value.v)
    [] value.t = "num" -> Ok(NatToString(value.n))
    [] value.t = "bool" -> Ok(IF value.b THEN "true" ELSE "false")
    [] value.t = "custom" -> Ok(value.s)
    [] OTHER -> Throw("TypeError: Unsupported path parameter " \o key)

\* index of the first brace after position p, or 0
NextBrace(s, p) ==
  IF \E q \in (p + 1)..Len(s) : Ch(s, q) \in {"{", "}"}
  THEN CHOOSE q \in (p + 1)..Len(s) :
         /\ Ch(s, q) \in {"{", "}"}
         /\ \A j \in (p + 1)..(q - 1) : Ch(s, j) \notin {"{", "}"}
  ELSE 0

\* /\{([^{}]+)\}/ matches at position p
MatchAt(s, p) ==
  /\ Ch(s, p) = "{"
  /\ NextBrace(s, p) > p + 1
  /\ Ch(s, NextBrace(s, p)) = "}"

\* [...path.matchAll(/\{([^{}]+)\}/g)] from position i on
RECURSIVE paramMatches(_, _)
paramMatches(s, i) ==
  IF i > Len(s) THEN <<>>
  ELSE IF MatchAt(s, i)
  THEN <<[first |-> i, last |-> NextBrace(s, i),
          key |-> SubSeq(s, i + 1, NextBrace(s, i) - 1)]>>
       \o paramMatches(s, NextBrace(s, i) + 1)
  ELSE paramMatches(s, i + 1)

\* the closure compilePathTemplate returns: path, paramKeys and parts
compilePathTemplate(path) ==
  LET ms == paramMatches(path, 1)
      n == Len(ms)
  IN [path |-> path,
      paramKeys |-> [i \in 1..n |-> ms[i].key],
      parts |-> [i \in 1..(n + 1) |->
        SubSeq(path,
               IF i = 1 THEN 1 ELSE ms[i - 1].last + 1,
               IF i = n + 1 THEN Len(path) ELSE ms[i].first - 1)]]

\* applyFrom that substitutes a null value like any other value
RECURSIVE applyFromNullAsValue(_, _, _, _)
applyFromNullAsValue(c, pathParams, i, result) ==
  IF i > Len(c.paramKeys) THEN Ok(result)
  ELSE LET key == c.paramKeys[i]
           rawValue == Prop(pathParams, key)
           placeholder == "{" \o key \o "}"
       IN IF key # "" /\ HasOwn(pathParams, key) /\ rawValue # Undefined
          THEN LET seg == IF rawValue = Null THEN Ok("null")
                          ELSE toPathParamSegment(key, rawValue) IN
               IF seg.ok
               THEN applyFromNullAsValue(c, pathParams, i + 1,
                      result \o encodeURIComponent(seg.v) \o c.parts[i + 1])
               ELSE seg
          ELSE applyFromNullAsValue(c, pathParams, i + 1,
                 result \o placeholder \o c.parts[i + 1])

RECURSIVE applyFrom(_, _, _, _)
applyFrom(c, pathParams, i, result) ==
  IF i > Len(c.paramKeys) THEN Ok(result)
  ELSE LET key == c.paramKeys[i]
           rawValue == Prop(pathParams, key)
           placeholder == "{" \o key \o "}"
       IN IF key # "" /\ HasOwn(pathParams, key)
             /\ rawValue # Undefined /\ rawValue # Null
          THEN LET seg == toPathParamSegment(key, rawValue) IN
               IF seg.ok
               THEN applyFrom(c, pathParams, i + 1,
                      result \o encodeURIComponent(seg.v) \o c.parts[i + 1])
               ELSE seg
          ELSE applyFrom(c, pathParams, i + 1,
                 result \o placeholder \o c.parts[i + 1])

\* the function compilePathTemplate(path) returns, applied to pathParams
applyParams(c, pathParams) ==
  IF Len(c.paramKeys) = 0 THEN Ok(c.path)
  ELSE IF ~Truthy(pathParams) THEN Ok(c.path)
  ELSE applyFrom(c, pathParams, 1, c.parts[1])

(***************************************************************************)
(* Request options                                                         *)
(***************************************************************************)
\* normalizeRequestOptions that leaves the legacy shape as it is
normalizeRequestOptionsKeepLegacy(options) ==
  IF ~Truthy(options) \/ ~IsObject(options) THEN options
  ELSE IF options.t # "obj" THEN options
  ELSE
    LET original == options.o
        op == Prop(options, "params")
        params == IF Truthy(op) /\ IsObject(op)
                  THEN (IF op.t = "obj" THEN Obj(op.o) ELSE Obj(EmptyRec))
                  ELSE Undefined
    IN IF params # Undefined
       THEN Obj(WithKey(original, "params", params))
       ELSE options

\* normalizeRequestOptions in which the legacy query always wins
normalizeRequestOptionsLegacyWins(options) ==
  IF ~Truthy(options) \/ ~IsObject(options) THEN options
  ELSE IF options.t # "obj" THEN options
  ELSE
    LET original == options.o
        op == Prop(options, "params")
        params == IF Truthy(op) /\ IsObject(op)
                  THEN (IF op.t = "obj" THEN Obj(op.o) ELSE Obj(EmptyRec))
                  ELSE Undefined
    IN IF "query" \in DOMAIN original THEN
         LET query == original["query"]
             rest == WithoutKey(original, "query")
             nextParams == IF params = Undefined THEN Obj(EmptyRec) ELSE params
         IN Obj(WithKey(rest, "params",
                        Obj(WithKey(nextParams.o, "query", query))))
       ELSE IF params # Undefined
       THEN Obj(WithKey(original, "params", params))
       ELSE options

normalizeRequestOptions(options) ==
  IF ~Truthy(options) \/ ~IsObject(options) THEN options
  ELSE IF options.t # "obj" THEN options
  ELSE
    LET original == options.o
        op == Prop(options, "params")
        params == IF Truthy(op) /\ IsObject(op)
                  THEN (IF op.t = "obj" THEN Obj(op.o) ELSE Obj(EmptyRec))
                  ELSE Undefined
    IN IF "query" \in DOMAIN original THEN
         LET query == original["query"]
             rest == WithoutKey(original, "query")
             nextParams == IF params = Undefined THEN Obj(EmptyRec) ELSE params
             withQuery == IF Prop(nextParams, "query") = Undefined
                          THEN Obj(WithKey(nextParams.o, "query", query))
                          ELSE nextParams
         IN Obj(WithKey(rest, "params", withQuery))
       ELSE IF params # Undefined
       THEN Obj(WithKey(original, "params", params))
       ELSE options

getParams(options) ==
  IF ~Truthy(options) \/ ~IsObject(options) THEN Undefined
  ELSE LET params == Prop(options, "params") IN
    IF ~Truthy(params) \/ ~IsObject(params) THEN Undefined ELSE params

(***************************************************************************)
(* Security map                                                            *)
(***************************************************************************)
WordChars == {Ch(Lower, i) : i \in 1..26} \cup {Ch(Upper, i) : i \in 1..26}
               \cup Digits \cup {"_"}

\* characters /^[\w\-./^[\]$+*?(){}|\\]+$/ accepts
SafePatternChars ==
  WordChars \cup {"-", ".", "/", "^", "[", "]", "$", "+", "*", "?", "(", ")",
                  "{", "}", "|", "\\"}

\* createSafePathRegex: the pattern is accepted, or it throws
createSafePathRegex(pattern) ==
  IF pattern # "" /\ \A i \in 1..Len(pattern) : Ch(pattern, i) \in SafePatternChars
  THEN Ok(pattern)
  ELSE Throw("Invalid pattern for path regex: " \o pattern)

\* length of the match of /\{[a-z_]\w*\}/i at position p, or 0
PlaceholderAt(s, p) ==
  IF Ch(s, p) = "{" /\ p + 1 <= Len(s)
       /\ Ch(s, p + 1) \in (WordChars \ Digits)
  THEN LET q == NextBrace(s, p) IN
       IF q # 0 /\ Ch(s, q) = "}"
            /\ \A j \in (p + 1)..(q - 1) : Ch(s, j) \in WordChars
       THEN q - p + 1 ELSE 0
  ELSE 0

\* the path with every {identifier} replaced by [^/]+
RECURSIVE regexPathOf(_)
regexPathOf(path) ==
  IF path = "" THEN ""
  ELSE IF PlaceholderAt(path, 1) > 0
  THEN "[^/]+" \o regexPathOf(Slice(path, PlaceholderAt(path, 1)))
  ELSE Ch(path, 1) \o regexPathOf(Slice(path, 1))

\* the regular expression matches the whole of s; re is the pattern between
\* ^ and $, made of [^/]+ groups, the wildcard . and literal characters
RECURSIVE MatchFrom(_, _)
MatchFrom(re, s) ==
  IF re = "" THEN s = ""
  ELSE IF StartsWith(re, "[^/]+")
  THEN \E k \in 1..Len(s) :
         /\ \A j \in 1..k : Ch(s, j) # "/"
         /\ MatchFrom(Slice(re, 5), Slice(s, k))
  ELSE IF Ch(re, 1) = "."
  THEN s # "" /\ MatchFrom(Slice(re, 1), Slice(s, 1))
  ELSE s # "" /\ Ch(s, 1) = Ch(re, 1) /\ MatchFrom(Slice(re, 1), Slice(s, 1))

\* regex.test(pathname) for a pattern ^...$
RegexTest(pattern, pathname) ==
  MatchFrom(SubSeq(pattern, 2, Len(pattern) - 1), pathname)

\* compileFrom that leaves out an entry whose pattern is rejected
RECURSIVE compileFromSkipUnsafe(_, _, _)
compileFromSkipUnsafe(entries, exact, patterns) ==
  IF entries = <<>> THEN [ok |-> TRUE, exact |-> exact, patterns |-> patterns]
  ELSE LET e == Head(entries) IN
    IF Includes(e.path, "{")
    THEN LET regex == createSafePathRegex("^" \o regexPathOf(e.path) \o "$") IN
         compileFromSkipUnsafe(Tail(entries), exact,
           IF regex.ok
           THEN Append(patterns, [regex |-> regex.v, methods |-> e.methods])
           ELSE patterns)
    ELSE compileFromSkipUnsafe(Tail(entries),
           WithKey(exact, e.path, e.methods), patterns)

\* a security map is Undefined or a sequence of [path, methods] entries in
\* the key order of the object; methods maps a method to its scheme list
RECURSIVE compileFrom(_, _, _)
compileFrom(entries, exact, patterns) ==
  IF entries = <<>> THEN [ok |-> TRUE, exact |-> exact, patterns |-> patterns]
  ELSE LET e == Head(entries) IN
    IF Includes(e.path, "{")
    THEN LET regex == createSafePathRegex("^" \o regexPathOf(e.path) \o "$") IN
         IF regex.ok
         THEN compileFrom(Tail(entries), exact,
                Append(patterns, [regex |-> regex.v, methods |-> e.methods]))
         ELSE [ok |-> FALSE, exact |-> exact, patterns |-> patterns]
    ELSE compileFrom(Tail(entries),
           WithKey(exact, e.path,
             IF e.path \in DOMAIN exact
             THEN [m \in DOMAIN exact[e.path] \cup DOMAIN e.methods |->
                     IF m \in DOMAIN e.methods THEN e.methods[m]
                     ELSE exact[e.path][m]]
             ELSE e.methods),
           patterns)

compileSecurityMap(map) ==
  IF map = Undefined THEN [ok |-> TRUE, exact |-> EmptyRec, patterns |-> <<>>]
  ELSE compileFrom(map.entries, EmptyRec, <<>>)

\* index of the first pattern from i on that matches pathname and declares
\* method, or 0
RECURSIVE firstPattern(_, _, _, _)
firstPattern(patterns, i, pathname, method) ==
  IF i > Len(patterns) THEN 0
  ELSE IF RegexTest(patterns[i].regex, pathname)
            /\ method \in DOMAIN patterns[i].methods
  THEN i
  ELSE firstPattern(patterns, i + 1, pathname, method)

\* resolveSecuritySchemes that scans the patterns before the exact index
resolveSecuritySchemesPatternsFirst(compiled, pathname, method) ==
  LET i == firstPattern(compiled.patterns, 1, pathname, method) IN
  IF i # 0 THEN compiled.patterns[i].methods[method]
  ELSE IF pathname \in DOMAIN compiled.exact
            /\ method \in DOMAIN compiled.exact[pathname]
  THEN compiled.exact[pathname][method]
  ELSE <<>>

\* index of the first pattern from i on that matches pathname and declares
\* method with at least one scheme, or 0
RECURSIVE firstNonEmptyPattern(_, _, _, _)
firstNonEmptyPattern(patterns, i, pathname, method) ==
  IF i > Len(patterns) THEN 0
  ELSE IF /\ RegexTest(patterns[i].regex, pathname)
          /\ method \in DOMAIN patterns[i].methods
          /\ patterns[i].methods[method] # <<>>
  THEN i
  ELSE firstNonEmptyPattern(patterns, i + 1, pathname, method)

\* resolveSecuritySchemes whose scan goes past an empty scheme list
resolveSecuritySchemesSkipEmpty(compiled, pathname, method) ==
  IF pathname \in DOMAIN compiled.exact
       /\ method \in DOMAIN compiled.exact[pathname]
  THEN compiled.exact[pathname][method]
  ELSE LET i == firstNonEmptyPattern(compiled.patterns, 1, pathname, method) IN
       IF i # 0 THEN compiled.patterns[i].methods[method] ELSE <<>>

resolveSecuritySchemes(compiled, pathname, method) ==
  IF pathname \in DOMAIN compiled.exact
       /\ method \in DOMAIN compiled.exact[pathname]
  THEN compiled.exact[pathname][method]
  ELSE LET i == firstPattern(compiled.patterns, 1, pathname, method) IN
       IF i # 0 THEN compiled.patterns[i].methods[method] ELSE <<>>

SeqIncludes(seq, x) == \E i \in 1..Len(seq) : seq[i] = x

(***************************************************************************)
(* Authentication                                                          *)
(***************************************************************************)
\* length of the match of /^\/api\/v\d+/i at the start of s, or 0
ApiVersionPrefix(s) ==
  IF Len(s) >= 7 /\ toUpperCase(SubSeq(s, 1, 6)) = "/API/V"
       /\ Ch(s, 7) \in Digits
  THEN CHOOSE n \in 7..Len(s) :
         /\ \A j \in 7..n : Ch(s, j) \in Digits
         /\ (n = Len(s) \/ Ch(s, n + 1) \notin Digits)
  ELSE 0

stripBasePath(pathname, base) ==
  LET normalized ==
        IF base # "" /\ StartsWith(pathname, base)
        THEN (IF Slice(pathname, Len(base)) = "" THEN "/"
              ELSE Slice(pathname, Len(base)))
        ELSE IF ApiVersionPrefix(pathname) > 0
        THEN (IF Slice(pathname, ApiVersionPrefix(pathname)) = "" THEN "/"
              ELSE Slice(pathname, ApiVersionPrefix(pathname)))
        ELSE pathname
      slashed == IF StartsWith(normalized, "/") THEN normalized
                 ELSE "/" \o normalized
  IN IF slashed = "" THEN "/" ELSE slashed

B64 == "ABCDEFGHIJKLMNOPQRSTUVWXYZabcdefghijklmnopqrstuvwxyz0123456789+/"

\* runs of consecutive character codes
CodeRuns == <<[s |-> "0123456789:", base |-> 48],
              [s |-> Upper, base |-> 65],
              [s |-> "_", base |-> 95],
              [s |-> Lower, base |-> 97]>>

CharCodes ==
  [c \in UNION {{Ch(CodeRuns[r].s, i) : i \in 1..Len(CodeRuns[r].s)} :
                  r \in 1..Len(CodeRuns)} |->
     LET r == CHOOSE q \in 1..Len(CodeRuns) : Includes(CodeRuns[q].s, c)
         i == CHOOSE j \in 1..Len(CodeRuns[r].s) : Ch(CodeRuns[r].s, j) = c
     IN CodeRuns[r].base + i - 1]

\* the bytes of an ASCII string
Bytes(s) == [i \in 1..Len(s) |-> CharCodes[Ch(s, i)]]

RECURSIVE base64(_)
base64(b) ==
  IF Len(b) = 0 THEN ""
  ELSE LET b1 == b[1]
           b2 == IF Len(b) >= 2 THEN b[2] ELSE 0
           b3 == IF Len(b) >= 3 THEN b[3] ELSE 0
           triplet == b1 * 65536 + b2 * 256 + b3
       IN Ch(B64, ((triplet \div 262144) % 64) + 1)
          \o Ch(B64, ((triplet \div 4096) % 64) + 1)
          \o (IF Len(b) >= 2 THEN Ch(B64, ((triplet \div 64) % 64) + 1) ELSE "=")
          \o (IF Len(b) >= 3 THEN Ch(B64, (triplet % 64) + 1) ELSE "=")
          \o base64(SubSeq(b, 4, Len(b)))

\* the runtimes the package is built for offer btoa or Buffer; the third
\* branch of resolveBasicToken serves a runtime with neither
Runtimes == {"btoa", "Buffer"}

\* resolveBasicToken that encodes on every call
resolveBasicTokenNoMemo(auth, rt, cache, calls) ==
  LET user == auth.o.username.v
      pass == IF Prop(auth, "password") \in {Undefined, Null} THEN ""
              ELSE auth.o.password.v
      token == base64(Bytes(user \o ":" \o pass))
  IN [token |-> token, cached |-> Str(token), encodeCalls |-> calls + 1]

\* resolveBasicToken(): the token returned and the closure state afterwards
resolveBasicToken(auth, rt, cache, calls) ==
  IF cache # Undefined
  THEN [token |-> cache.v, cached |-> cache, encodeCalls |-> calls]
  ELSE LET user == auth.o.username.v
           pass == IF Prop(auth, "password") \in {Undefined, Null} THEN ""
                   ELSE auth.o.password.v
       IN IF rt \in {"btoa", "Buffer"}
          THEN LET token == base64(Bytes(user \o ":" \o pass)) IN
               [token |-> token, cached |-> Str(token),
                encodeCalls |-> calls + 1]
          ELSE [token |-> "", cached |-> Str(""), encodeCalls |-> calls]

NoHeader == [scheme |-> "none", value |-> ""]
BasicHeader(token) == [scheme |-> "Basic", value |-> token]
BearerHeader(token) == [scheme |-> "Bearer", value |-> token]
CustomHeader == [scheme |-> "Custom", value |-> "token"]

\* authOverrides[pathname] ?? authOverrides[fullPathname]
overrideFor(overrides, pathname, fullPathname) ==
  IF overrides = Undefined THEN Undefined
  ELSE IF Prop(overrides, pathname) \notin {Undefined, Null}
  THEN Prop(overrides, pathname)
  ELSE Prop(overrides, fullPathname)

\* shouldUseBasic without the /guest_users heuristic
shouldUseBasicNoGuestUsers(override, compiled, pathname, method) ==
  IF override = Str("basic") THEN TRUE
  ELSE IF override # Str("oauth2")
  THEN LET declaredSchemes == resolveSecuritySchemes(compiled, pathname, method)
           allowsApiKey == SeqIncludes(declaredSchemes, "APIKey")
           isChargeEndpoint == EndsWith(pathname, "/charge")
                                 \/ EndsWith(pathname, "/p2p/charge")
       IN allowsApiKey \/ isChargeEndpoint
  ELSE FALSE

\* shouldUseBasic that consults the override after the heuristics
shouldUseBasicOverrideLast(override, compiled, pathname, method) ==
  LET declaredSchemes == resolveSecuritySchemes(compiled, pathname, method)
      allowsApiKey == SeqIncludes(declaredSchemes, "APIKey")
      isChargeEndpoint == EndsWith(pathname, "/charge")
                            \/ EndsWith(pathname, "/p2p/charge")
      isGuestUsersEndpoint == EndsWith(pathname, "/guest_users")
  IN IF allowsApiKey \/ isChargeEndpoint \/ isGuestUsersEndpoint THEN TRUE
     ELSE override = Str("basic")

shouldUseBasic(override, compiled, pathname, method) ==
  IF override = Str("basic") THEN TRUE
  ELSE IF override # Str("oauth2")
  THEN LET declaredSchemes == resolveSecuritySchemes(compiled, pathname, method)
           allowsApiKey == SeqIncludes(declaredSchemes, "APIKey")
           isChargeEndpoint == EndsWith(pathname, "/charge")
                                 \/ EndsWith(pathname, "/p2p/charge")
           isGuestUsersEndpoint == EndsWith(pathname, "/guest_users")
       IN allowsApiKey \/ isChargeEndpoint \/ isGuestUsersEndpoint
  ELSE FALSE

(***************************************************************************)
(* Operation dispatcher                                                    *)
(***************************************************************************)
HttpMethods == {"GET", "POST", "PUT", "PATCH", "DELETE", "HEAD", "OPTIONS"}

\* deps.operationIdToPath
operationIdToPath ==
  [basic_getCharge |-> [path |-> "/charge", method |-> "GET"],
   basic_createTransaction |-> [path |-> "/transactions", method |-> "POST"],
   oauth_getUser |-> [path |-> "/users/{userId}", method |-> "get"],
   p2p_getNote |-> [path |-> "p2p/{id}/notes/{n}", method |-> "DELETE"],
   legacy_trace |-> [path |-> "/users/{userId}", method |-> "TRACE"]]

OperationIds == DOMAIN operationIdToPath

\* properties every object inherits from Object.prototype
ObjectPrototypeProps == {"toString", "constructor"}
\* property keys that are symbols
SymbolProps == {"@@toPrimitive"}

PropNames ==
  OperationIds \cup ObjectPrototypeProps \cup SymbolProps
    \cup {"nonexistent.operation", "raw", "then", "pathBased",
          "/users/me/balances"}

\* the transport object createClient returned
ClientValue == [t |-> "client"]
Inherited(name) == [t |-> "inherited", name |-> name]

PathClientKinds == {"proxy", "plain"}

\* pathClient[key]: the Proxy of wrapAsPathBasedClient answers every key,
\* the plain object of a test double answers its own key
PathClientGet(kind, key) ==
  IF kind = "proxy" THEN [t |-> "pathEntry", path |-> key]
  ELSE IF key = "pathBased" THEN ClientValue
  ELSE IF key \in ObjectPrototypeProps THEN Inherited(key)
  ELSE Undefined

\* own enumerable keys of pathClient: a Proxy without ownKeys trap reports
\* the keys of its (empty) target
PathClientOwnKeys(kind) == IF kind = "proxy" THEN {} ELSE {"pathBased"}

\* Object.assign(byOperationId, pathClient, { raw: client })
MergedTarget(kind) ==
  [k \in PathClientOwnKeys(kind) \cup {"raw"} |->
     IF k = "raw" THEN ClientValue ELSE PathClientGet(kind, k)]

\* MakeHandler compiling the mapping's path without the base path
MakeHandlerNoBase(opId, base, gen) ==
  LET mapping == operationIdToPath[opId]
      templatePath == joinPaths("", mapping.path)
  IN [t |-> "fn", opId |-> opId, method |-> mapping.method,
      upper |-> toUpperCase(mapping.method),
      applyParams |-> compilePathTemplate(templatePath),
      gen |-> gen]

\* the handler closure built in the get trap
MakeHandler(opId, base, gen) ==
  LET mapping == operationIdToPath[opId]
      templatePath == joinPaths(base, mapping.path)
  IN [t |-> "fn", opId |-> opId, method |-> mapping.method,
      upper |-> toUpperCase(mapping.method),
      applyParams |-> compilePathTemplate(templatePath),
      gen |-> gen]

\* ProxyGet without the check that the operation id has a mapping
ProxyGetNoMappingCheck(tgt, blt, base, prop) ==
  IF prop = "then" THEN [value |-> Undefined, target |-> tgt, built |-> blt]
  ELSE IF prop \in DOMAIN tgt
  THEN [value |-> tgt[prop], target |-> tgt, built |-> blt]
  ELSE IF prop \in ObjectPrototypeProps
  THEN [value |-> Inherited(prop), target |-> tgt, built |-> blt]
  ELSE IF prop \in SymbolProps
  THEN [value |-> Undefined, target |-> tgt, built |-> blt]
  ELSE IF prop \notin OperationIds
  THEN [value |-> [t |-> "throw", e |-> "TypeError"],
        target |-> tgt, built |-> blt]
  ELSE LET handler == MakeHandler(prop, base, blt[prop] + 1) IN
       [value |-> handler,
        target |-> WithKey(tgt, prop, handler),
        built |-> [blt EXCEPT ![prop] = @ + 1]]

\* ProxyGet that builds a handler on every access of an operation id
ProxyGetNoCache(tgt, blt, base, prop) ==
  IF prop = "then" THEN [value |-> Undefined, target |-> tgt, built |-> blt]
  ELSE IF prop \in DOMAIN tgt /\ prop \notin OperationIds
  THEN [value |-> tgt[prop], target |-> tgt, built |-> blt]
  ELSE IF prop \in ObjectPrototypeProps
  THEN [value |-> Inherited(prop), target |-> tgt, built |-> blt]
  ELSE IF prop \in SymbolProps
  THEN [value |-> Undefined, target |-> tgt, built |-> blt]
  ELSE IF prop \notin OperationIds
  THEN [value |-> Undefined, target |-> tgt, built |-> blt]
  ELSE LET handler == MakeHandler(prop, base, blt[prop] + 1) IN
       [value |-> handler,
        target |-> WithKey(tgt, prop, handler),
        built |-> [blt EXCEPT ![prop] = @ + 1]]

\* get trap of byOperationId: the value read and the target afterwards
ProxyGet(tgt, blt, base, prop) ==
  IF prop = "then" THEN [value |-> Undefined, target |-> tgt, built |-> blt]
  ELSE IF prop \in DOMAIN tgt
  THEN [value |-> tgt[prop], target |-> tgt, built |-> blt]
  ELSE IF prop \in ObjectPrototypeProps
  THEN [value |-> Inherited(prop), target |-> tgt, built |-> blt]
  ELSE IF prop \in SymbolProps
  THEN [value |-> Undefined, target |-> tgt, built |-> blt]
  ELSE IF prop \notin OperationIds
  THEN [value |-> Undefined, target |-> tgt, built |-> blt]
  ELSE LET handler == MakeHandler(prop, base, blt[prop] + 1) IN
       [value |-> handler,
        target |-> WithKey(tgt, prop, handler),
        built |-> [blt EXCEPT ![prop] = @ + 1]]

\* HandlerCall whose switch sends an unsupported verb to GET
HandlerCallDefaultGet(h, requestOptions) ==
  LET optionsToSend == normalizeRequestOptions(requestOptions)
      params == getParams(optionsToSend)
      finalPath == applyParams(h.applyParams, Prop(params, "path"))
  IN IF ~finalPath.ok THEN Throw(finalPath.v)
     ELSE Ok([method |-> IF h.upper \in HttpMethods THEN h.upper ELSE "GET",
              path |-> finalPath.v, options |-> optionsToSend])

\* handler(requestOptions): the call it makes on the transport, or a throw
HandlerCall(h, requestOptions) ==
  LET optionsToSend == normalizeRequestOptions(requestOptions)
      params == getParams(optionsToSend)
      finalPath == applyParams(h.applyParams, Prop(params, "path"))
  IN IF ~finalPath.ok THEN Throw(finalPath.v)
     ELSE IF h.upper \in HttpMethods
     THEN Ok([method |-> h.upper, path |-> finalPath.v,
              options |-> optionsToSend])
     ELSE Throw("Unsupported method " \o h.method \o " for " \o h.opId)

Query1 == Obj([price |-> Num(1234)])
Query2 == Obj([price |-> Num(7)])

\* the arguments handlers are invoked with
QueryOptions ==
  { Undefined,
    Obj([params |-> Obj([query |-> Query1])]),
    Obj([query |-> Query1]),
    Obj([query |-> Query2, params |-> Obj([query |-> Query1])]),
    Obj([headers |-> Obj([Authorization |-> Str("Custom token")])]) }

PathOptions ==
  { Undefined,
    Obj([params |-> Obj([path |-> Obj([userId |-> Str("u 1"), id |-> Num(42)])])]),
    Obj([query |-> Query1,
         params |-> Obj([path |-> Obj([userId |-> Null, n |-> Custom("a/b")])])]),
    Obj([params |-> Obj([path |-> Obj([userId |-> PlainObject, id |-> PlainObject])])]) }

OptionsSet == QueryOptions \cup PathOptions

OptionsFor(opId) ==
  IF Includes(operationIdToPath[opId].path, "{") THEN PathOptions
  ELSE QueryOptions

ApiUrls == {"https://test.trustap.com", "https://dev.trustap.com/api/v1/", ""}
BasePathOptions == {Undefined, Str(""), Str(" v2/ ")}

NoAuthConfig ==
  /\ basicAuth = Undefined
  /\ hasGetAccessToken = FALSE
  /\ authOverrides = Undefined
  /\ compiledSecurityMap = compileSecurityMap(Undefined)
  /\ runtime = "btoa"
  /\ cached = Undefined
  /\ encodeCalls = 0
  /\ requests = EmptyBag
  /\ middleware = <<>>

\* the state createTrustapClientCore returns in
Init ==
  /\ \E apiUrl \in ApiUrls, basePathOption \in BasePathOptions :
       LET cfg == inferBaseConfig(apiUrl, basePathOption) IN
         /\ basePath = cfg.basePath
         /\ baseUrl = cfg.baseUrl
  /\ pathClientKind \in PathClientKinds
  /\ target = MergedTarget(pathClientKind)
  /\ built = [id \in OperationIds |-> 0]
  /\ last = [kind |-> "none"]
  /\ callCount = 0
  /\ NoAuthConfig

\* client[prop]
Get(prop) ==
  /\ \E r \in {ProxyGet(target, built, basePath, prop)} :
       /\ target' = r.target
       /\ built' = r.built
       /\ last' = [kind |-> "get", name |-> prop, value |-> r.value]
  /\ UNCHANGED <<callCount, configVars, authVars>>

\* client[opId](requestOptions) on a transport that records its calls
Invoke(opId, requestOptions) ==
  /\ callCount < MaxCalls
  /\ \E r \in {ProxyGet(target, built, basePath, opId)} :
       /\ r.value.t = "fn"
       /\ target' = r.target
       /\ built' = r.built
       /\ \E out \in {HandlerCall(r.value, requestOptions)} :
            /\ last' = [kind |-> "invoke", opId |-> opId,
                        options |-> requestOptions, handler |-> r.value,
                        outcome |-> out, callsBefore |-> callCount]
            /\ callCount' = IF out.ok THEN callCount + 1 ELSE callCount
  /\ UNCHANGED <<configVars, authVars>>

Next ==
  \/ \E prop \in PropNames : Get(prop)
  \/ \E opId \in OperationIds : \E o \in OptionsFor(opId) : Invoke(opId, o)

Spec == Init /\ [][Next]_vars

(***************************************************************************)
(* Web-standard transport and the auth middleware                          *)
(***************************************************************************)
\* String(value)
StringOf(value) ==
  CASE value.t = "str" -> value.v
    [] value.t = "num" -> NatToString(value.n)
    [] value.t = "bool" -> (IF value.b THEN "true" ELSE "false")
    [] value.t = "custom" -> value.s
    [] value.t = "null" -> "null"
    [] value.t = "undefined" -> "undefined"
    [] OTHER -> "[object Object]"

\* s.replace(pat, rep): the first occurrence only
ReplaceFirst(s, pat, rep) ==
  IF Includes(s, pat)
  THEN LET i == CHOOSE k \in 1..Len(s) :
                  /\ StartsWith(Slice(s, k - 1), pat)
                  /\ \A j \in 1..(k - 1) : ~StartsWith(Slice(s, j - 1), pat)
       IN SubSeq(s, 1, i - 1) \o rep \o Slice(s, i + Len(pat) - 1)
  ELSE s

\* for (const [key, value] of Object.entries(f)) url = url.replace(...)
RECURSIVE replacePathParams(_, _)
replacePathParams(url, f) ==
  IF DOMAIN f = {} THEN url
  ELSE LET key == CHOOSE k \in DOMAIN f : TRUE IN
       replacePathParams(
         ReplaceFirst(url, "{" \o key \o "}", StringOf(f[key])),
         WithoutKey(f, key))

\* URLSearchParams of the entries of f, as a string
RECURSIVE searchParams(_)
searchParams(f) ==
  IF DOMAIN f = {} THEN ""
  ELSE LET key == CHOOSE k \in DOMAIN f : TRUE
           rest == searchParams(WithoutKey(f, key))
       IN key \o "=" \o encodeURIComponent(StringOf(f[key]))
          \o (IF rest = "" THEN "" ELSE "&" \o rest)

\* the Authorization entry of new Headers(options.headers)
AuthorizationOf(options) ==
  LET h == Prop(options, "headers") IN
  IF HasOwn(h, "Authorization")
  THEN (IF h.o["Authorization"] = Str("Custom token") THEN CustomHeader
        ELSE [scheme |-> "Other", value |-> StringOf(h.o["Authorization"])])
  ELSE NoHeader

\* the URL buildRequest hands to new Request
requestUrl(base, path, options) ==
  LET params == Prop(options, "params")
      pathParams == Prop(params, "path")
      query == Prop(params, "query")
      withPath == IF Truthy(pathParams) /\ pathParams.t = "obj"
                  THEN replacePathParams(base \o path, pathParams.o)
                  ELSE base \o path
      queryString == IF Truthy(query) /\ query.t = "obj"
                     THEN searchParams(query.o) ELSE ""
  IN IF queryString = "" THEN withPath
     ELSE withPath \o (IF Includes(withPath, "?") THEN "&" ELSE "?")
            \o queryString

\* basicAuth || getAccessToken: the middleware is installed
MiddlewareInstalled == basicAuth # Undefined \/ hasGetAccessToken

\* resolveAuth that asks the supplier before it looks at the Basic decision
resolveAuthSupplierFirst(url, method) ==
  LET fullPathname == parseURL(url).pathname
      pathname == stripBasePath(fullPathname, basePath)
      override == overrideFor(authOverrides, pathname, fullPathname)
      useBasic == shouldUseBasic(override, compiledSecurityMap, pathname,
                                 toUpperCase(method))
      r == IF useBasic /\ basicAuth # Undefined
           THEN resolveBasicToken(basicAuth, runtime, cached, encodeCalls)
           ELSE [token |-> "", cached |-> cached, encodeCalls |-> encodeCalls]
  IN [pc |-> IF hasGetAccessToken THEN "token" ELSE "fetch",
      auth |-> IF r.token # "" THEN BasicHeader(r.token) ELSE NoHeader,
      cached |-> r.cached, encodeCalls |-> r.encodeCalls]

\* the body of onRequest for a request without Authorization header, up
\* to its end or to the call of getAccessToken: where the request stands,
\* its Authorization header and the resolver's closure state
resolveAuth(url, method) ==
  LET fullPathname == parseURL(url).pathname
      pathname == stripBasePath(fullPathname, basePath)
      override == overrideFor(authOverrides, pathname, fullPathname)
      useBasic == shouldUseBasic(override, compiledSecurityMap, pathname,
                                 toUpperCase(method))
  IN IF useBasic /\ basicAuth # Undefined
     THEN LET r == resolveBasicToken(basicAuth, runtime, cached, encodeCalls) IN
          [pc |-> "fetch",
           auth |-> IF r.token # "" THEN BasicHeader(r.token) ELSE NoHeader,
           cached |-> r.cached, encodeCalls |-> r.encodeCalls]
     ELSE IF hasGetAccessToken
     THEN [pc |-> "token", auth |-> NoHeader,
           cached |-> cached, encodeCalls |-> encodeCalls]
     ELSE [pc |-> "fetch", auth |-> NoHeader,
           cached |-> cached, encodeCalls |-> encodeCalls]

\* onRequest that resolves credentials even when Authorization is present
onRequestOverwrite(url, method, header) == resolveAuth(url, method)

\* authHeaderMiddleware.onRequest
onRequest(url, method, header) ==
  IF header # NoHeader
  THEN [pc |-> "fetch", auth |-> header,
        cached |-> cached, encodeCalls |-> encodeCalls]
  ELSE resolveAuth(url, method)

\* the token branch that attaches whatever the supplier yields
bearerForAlways(token) == BearerHeader(StringOf(token))

\* the token branch of onRequest after getAccessToken resolved
bearerFor(token) ==
  IF Truthy(token) THEN BearerHeader(StringOf(token)) ELSE NoHeader

\* new DenoHttpClient({ baseUrl }): one trailing slash removed
clientBaseUrl(url) == IF EndsWith(url, "/") THEN SubSeq(url, 1, Len(url) - 1) ELSE url

\* the middlewares a caller registers with client.raw.use: which hooks
\* each has and whether the hook returns or throws
Middlewares ==
  {[id |-> "m1", onRequest |-> "pass", onResponse |-> "pass"],
   [id |-> "m2", onRequest |-> "throw", onResponse |-> "none"],
   [id |-> "m3", onRequest |-> "none", onResponse |-> "throw"],
   [id |-> "m4", onRequest |-> "pass", onResponse |-> "pass"]}

\* the value a hook throws
HookError(id, hook) == id \o "." \o hook

\* runOnRequest that goes on after a hook threw
RECURSIVE runOnRequestSwallow(_, _, _)
runOnRequestSwallow(mws, i, via) ==
  IF i > Len(mws) THEN Ok(via)
  ELSE IF mws[i].onRequest \in {"none", "throw"}
  THEN runOnRequestSwallow(mws, i + 1, via)
  ELSE runOnRequestSwallow(mws, i + 1, Append(via, mws[i].id))

\* runOnRequest that runs the hooks from the last registered to the first
RECURSIVE runOnRequestReversed(_, _, _)
runOnRequestReversed(mws, i, via) ==
  IF i > Len(mws) THEN Ok(via)
  ELSE LET mw == mws[Len(mws) + 1 - i] IN
    IF mw.onRequest = "none" THEN runOnRequestReversed(mws, i + 1, via)
    ELSE IF mw.onRequest = "throw"
    THEN Throw(HookError(mw.id, "onRequest"))
    ELSE runOnRequestReversed(mws, i + 1, Append(via, mw.id))

\* the onRequest loop of buildRequest from middleware i on: the ids of the
\* hooks the request went through, or the value one of them threw
RECURSIVE runOnRequest(_, _, _)
runOnRequest(mws, i, via) ==
  IF i > Len(mws) THEN Ok(via)
  ELSE IF mws[i].onRequest = "none" THEN runOnRequest(mws, i + 1, via)
  ELSE IF mws[i].onRequest = "throw"
  THEN Throw(HookError(mws[i].id, "onRequest"))
  ELSE runOnRequest(mws, i + 1, Append(via, mws[i].id))

\* the onResponse loop of handleResponse from middleware i on
RECURSIVE runOnResponse(_, _, _)
runOnResponse(mws, i, via) ==
  IF i > Len(mws) THEN Ok(via)
  ELSE IF mws[i].onResponse = "none" THEN runOnResponse(mws, i + 1, via)
  ELSE IF mws[i].onResponse = "throw"
  THEN Throw(HookError(mws[i].id, "onResponse"))
  ELSE runOnResponse(mws, i + 1, Append(via, mws[i].id))

\* handleResponse: { data, response } or the value it throws
handleResponse(mws, response) ==
  LET hooks == runOnResponse(mws, 1, <<>>) IN
  IF ~hooks.ok THEN hooks
  ELSE IF response.ok
  THEN Ok([data |-> "json", status |-> response.status, via |-> hooks.v])
  ELSE Throw("HTTP " \o NatToString(response.status))

\* what getAccessToken rejects with
SupplierError == "getAccessToken rejected"

\* the supplier has not been called / has not answered yet
NotAsked == [t |-> "notasked"]
Pending == [t |-> "pending"]

\* what getAccessToken resolves to
Tokens == {Str("tokA"), Str(""), Null}

\* what fetch resolves to; it rejects on a network failure
Responses == {[ok |-> TRUE, status |-> 200], [ok |-> FALSE, status |-> 404]}

\* deps.securityMap in the key order of the object
SampleSecurityMap ==
  [entries |->
     <<[path |-> "/charge", methods |-> [GET |-> <<"APIKey", "OAuth2">>]],
       [path |-> "/transactions",
        methods |-> [POST |-> <<"OAuth2">>, PUT |-> <<"APIKey">>]],
       [path |-> "/users/{userId}", methods |-> [GET |-> <<"OAuth2">>]],
       [path |-> "/users/me/balances", methods |-> [GET |-> <<"APIKey">>]],
       [path |-> "/p2p/{id}/notes/{n}", methods |-> [DELETE |-> <<"APIKey">>]],
       [path |-> "/guest_users", methods |-> [POST |-> <<>>]]>>]

SecurityMaps == {Undefined, SampleSecurityMap}

\* options.authOverrides, keyed by normalized or by full pathname
SampleOverrides ==
  Obj(("/transactions" :> Str("basic")) @@ ("/charge" :> Str("oauth2"))
        @@ ("/guest_users" :> Str("auto"))
        @@ ("/api/v1/users/me/balances" :> Str("oauth2")))

OverrideOptions == {Undefined, SampleOverrides}

BasicAuthOptions ==
  {Undefined, Obj([username |-> Str("key1")]),
   Obj([username |-> Str("key1"), password |-> Str("pw")])}

AuthApiUrl == "https://dev.trustap.com/api/v1/"

CustomAuthorization == Obj([headers |-> Obj([Authorization |-> Str("Custom token")])])
NoteOptions == Obj([params |-> Obj([path |-> Obj([id |-> Num(42), n |-> Str("x")])])])

\* the operations invoked through the dispatcher
OperationCalls ==
  {<<"basic_getCharge", Undefined>>, <<"basic_getCharge", CustomAuthorization>>,
   <<"basic_createTransaction", Undefined>>, <<"p2p_getNote", NoteOptions>>}

\* calls made on client.raw
RawCalls ==
  {[method |-> "POST", path |-> "/api/v1/guest_users", options |-> Undefined],
   [method |-> "GET", path |-> "/api/v1/users/me/balances", options |-> Undefined]}

\* the state createTrustapClientCore returns in, on the Web-standard
\* transport
InitAuth ==
  /\ \E cfg \in {inferBaseConfig(AuthApiUrl, Undefined)} :
       /\ basePath = cfg.basePath
       /\ baseUrl = cfg.baseUrl
  /\ pathClientKind = "proxy"
  /\ target = MergedTarget(pathClientKind)
  /\ built = [id \in OperationIds |-> 0]
  /\ last = [kind |-> "none"]
  /\ callCount = 0
  /\ basicAuth \in BasicAuthOptions
  /\ hasGetAccessToken \in BOOLEAN
  /\ authOverrides \in OverrideOptions
  /\ \E map \in SecurityMaps : compiledSecurityMap = compileSecurityMap(map)
  /\ runtime \in (IF basicAuth = Undefined THEN {"btoa"} ELSE Runtimes)
  /\ cached = Undefined
  /\ encodeCalls = 0
  /\ requests = EmptyBag
  /\ middleware = <<>>

\* client.VERB(path, options) up to the first await that yields: the
\* request is built and onRequest runs until it returns or calls the
\* supplier; the request is recorded with the pathname of its URL and the
\* pathname without the base path
Send(c) ==
  /\ \E url \in {requestUrl(clientBaseUrl(baseUrl), c.path, c.options)} :
     \E inAuth \in {AuthorizationOf(c.options)} :
     \E r \in {IF MiddlewareInstalled
               THEN onRequest(url, toUpperCase(c.method), inAuth)
               ELSE [pc |-> "fetch", auth |-> inAuth, cached |-> cached,
                     encodeCalls |-> encodeCalls]} :
     \E full \in {parseURL(url).pathname} :
     \E hooks \in {IF r.pc = "fetch" THEN runOnRequest(middleware, 1, <<>>)
                   ELSE Ok(<<>>)} :
       /\ IF hooks.ok
          THEN /\ requests' = requests (+) SetToBag(
                    {[method |-> toUpperCase(c.method), url |-> url,
                      fullPathname |-> full,
                      pathname |-> stripBasePath(full, basePath),
                      inAuth |-> inAuth, auth |-> r.auth, pc |-> r.pc,
                      via |-> hooks.v,
                      token |-> IF r.pc = "token" THEN Pending ELSE NotAsked]})
               /\ last' = last
          ELSE /\ requests' = requests
               /\ last' = [kind |-> "settled", fetched |-> FALSE, status |-> 0,
                           outcome |-> hooks, token |-> NotAsked]
       /\ cached' = r.cached
       /\ encodeCalls' = r.encodeCalls

\* client.raw.VERB(path, options)
RawCall(c) ==
  /\ BagCardinality(requests) < MaxRequests
  /\ Send(c)
  /\ UNCHANGED <<target, built, callCount, configVars>>

\* client[opId](requestOptions) on the Web-standard transport
OperationCall(opId, requestOptions) ==
  /\ BagCardinality(requests) < MaxRequests
  /\ \E out \in {HandlerCall(MakeHandler(opId, basePath, 1), requestOptions)} :
       out.ok /\ Send(out.v)
  /\ UNCHANGED <<target, built, callCount, configVars>>

\* getAccessToken() resolves: onRequest resumes and returns the request
TokenResolved(r, token) ==
  /\ r \in BagToSet(requests)
  /\ r.pc = "token"
  /\ \E hooks \in {runOnRequest(middleware, 1, <<>>)} :
       IF hooks.ok
       THEN /\ requests' = (requests (-) SetToBag({r})) (+) SetToBag(
                 {[r EXCEPT !.pc = "fetch", !.auth = bearerFor(token),
                            !.token = token, !.via = hooks.v]})
            /\ last' = last
       ELSE /\ requests' = requests (-) SetToBag({r})
            /\ last' = [kind |-> "settled", fetched |-> FALSE, status |-> 0,
                        outcome |-> hooks, token |-> token]
  /\ UNCHANGED <<target, built, callCount, configVars, cached, encodeCalls>>

\* getAccessToken() rejects: the call rejects without a fetch
TokenRejected(r) ==
  /\ r \in BagToSet(requests)
  /\ r.pc = "token"
  /\ requests' = requests (-) SetToBag({r})
  /\ last' = [kind |-> "settled", fetched |-> FALSE, status |-> 0,
              outcome |-> Throw(SupplierError), token |-> r.token]
  /\ UNCHANGED <<target, built, callCount, configVars, cached, encodeCalls>>

\* fetch(request) resolves and handleResponse settles the call
FetchSettled(r, response) ==
  /\ r \in BagToSet(requests)
  /\ r.pc = "fetch"
  /\ requests' = requests (-) SetToBag({r})
  /\ last' = [kind |-> "settled", fetched |-> TRUE,
              status |-> response.status,
              outcome |-> handleResponse(middleware, response),
              token |-> r.token]
  /\ UNCHANGED <<target, built, callCount, configVars, cached, encodeCalls>>

\* fetch(request) rejects
FetchFailed(r) ==
  /\ r \in BagToSet(requests)
  /\ r.pc = "fetch"
  /\ requests' = requests (-) SetToBag({r})
  /\ last' = [kind |-> "settled", fetched |-> TRUE, status |-> 0,
              outcome |-> Throw("fetch failed"), token |-> r.token]
  /\ UNCHANGED <<target, built, callCount, configVars, cached, encodeCalls>>

NextAuth ==
  \/ \E c \in OperationCalls : OperationCall(c[1], c[2])
  \/ \E c \in RawCalls : RawCall(c)
  \/ \E r \in BagToSet(requests) : \E token \in Tokens : TokenResolved(r, token)
  \/ \E r \in BagToSet(requests) : TokenRejected(r)
  \/ \E r \in BagToSet(requests) : \E response \in Responses :
       FetchSettled(r, response)
  \/ \E r \in BagToSet(requests) : FetchFailed(r)

SpecAuth == InitAuth /\ [][NextAuth]_vars

\* middlewares registered with use() on one transport
MaxHooks == 2

\* keys of a security map handed to the constructor
MaxMapKeys == 2

\* the state createTrustapClientCore returns in, with credentials and a
\* supplier configured
InitHooks ==
  /\ \E cfg \in {inferBaseConfig(AuthApiUrl, Undefined)} :
       /\ basePath = cfg.basePath
       /\ baseUrl = cfg.baseUrl
  /\ pathClientKind = "proxy"
  /\ target = MergedTarget(pathClientKind)
  /\ built = [id \in OperationIds |-> 0]
  /\ last = [kind |-> "none"]
  /\ callCount = 0
  /\ basicAuth = Obj([username |-> Str("key1"), password |-> Str("pw")])
  /\ hasGetAccessToken = TRUE
  /\ authOverrides = Undefined
  /\ compiledSecurityMap = compileSecurityMap(SampleSecurityMap)
  /\ runtime = "btoa"
  /\ cached = Undefined
  /\ encodeCalls = 0
  /\ requests = EmptyBag
  /\ middleware = <<>>

\* client.raw.use(mw)
Use(mw) ==
  /\ Len(middleware) < MaxHooks
  /\ middleware' = Append(middleware, mw)
  /\ UNCHANGED <<basePath, baseUrl, pathClientKind, basicAuth,
                 hasGetAccessToken, authOverrides, compiledSecurityMap,
                 runtime, dispatchVars, authVars>>

\* the operations invoked while middlewares are registered
HookCalls ==
  {<<"basic_getCharge", Undefined>>, <<"basic_createTransaction", Undefined>>}

NextHooks ==
  \/ \E mw \in Middlewares : Use(mw)
  \/ \E c \in HookCalls : OperationCall(c[1], c[2])
  \/ \E r \in BagToSet(requests) : TokenResolved(r, Str("tokA"))
  \/ \E r \in BagToSet(requests) : TokenRejected(r)
  \/ \E r \in BagToSet(requests) : \E response \in Responses :
       FetchSettled(r, response)
  \/ \E r \in BagToSet(requests) : FetchFailed(r)

SpecHooks == InitHooks /\ [][NextHooks]_vars

\* entries of deps.securityMap: exact and parameterized paths, with and
\* without a character createSafePathRegex rejects
ConstructEntries ==
  {[path |-> "/charge", methods |-> [GET |-> <<"APIKey">>]],
   [path |-> "/users/{userId}", methods |-> [GET |-> <<"OAuth2">>]],
   [path |-> "/a b", methods |-> [GET |-> <<"APIKey">>]],
   [path |-> "/a b/{id}", methods |-> [GET |-> <<"APIKey">>]],
   [path |-> "/files/{id}~1", methods |-> [GET |-> <<"OAuth2">>]]}

\* sequences of at most n entries with distinct paths
RECURSIVE ConstructEntrySeqs(_)
ConstructEntrySeqs(n) ==
  IF n = 0 THEN {<<>>}
  ELSE ConstructEntrySeqs(n - 1) \cup
       {Append(q, e) :
          q \in {x \in ConstructEntrySeqs(n - 1) : Len(x) = n - 1},
          e \in ConstructEntries}

ConstructMaps ==
  {Undefined} \cup
    {[entries |-> q] :
       q \in {x \in ConstructEntrySeqs(MaxMapKeys) :
                \A i, j \in 1..Len(x) : i # j => x[i].path # x[j].path}}

\* no client object: createTrustapClientCore has not returned one
NoClient == EmptyRec

\* createTrustapClient(options) is about to be called with drawn deps
InitConstruct ==
  /\ \E cfg \in {inferBaseConfig(AuthApiUrl, Undefined)} :
       /\ basePath = cfg.basePath
       /\ baseUrl = cfg.baseUrl
  /\ pathClientKind = "proxy"
  /\ target = NoClient
  /\ built = [id \in OperationIds |-> 0]
  /\ last \in {[kind |-> "args", fn |-> "construct", securityMap |-> map] :
                 map \in ConstructMaps}
  /\ callCount = 0
  /\ basicAuth \in {Undefined, Obj([username |-> Str("key1"), password |-> Str("pw")])}
  /\ hasGetAccessToken = FALSE
  /\ authOverrides = Undefined
  /\ compiledSecurityMap = Undefined
  /\ runtime = "btoa"
  /\ cached = Undefined
  /\ encodeCalls = 0
  /\ requests = EmptyBag
  /\ middleware = <<>>

\* createTrustapClientCore: compileSecurityMap runs before createClient; when
\* it throws, the call throws and no client is returned
Construct ==
  /\ last.kind = "args" /\ last.fn = "construct"
  /\ \E compiled \in {compileSecurityMap(last.securityMap)} :
       IF compiled.ok
       THEN /\ compiledSecurityMap' = compiled
            /\ target' = MergedTarget(pathClientKind)
            /\ last' = [kind |-> "construct", securityMap |-> last.securityMap,
                        outcome |-> Ok("client")]
       ELSE /\ compiledSecurityMap' = compiledSecurityMap
            /\ target' = target
            /\ last' = [kind |-> "construct", securityMap |-> last.securityMap,
                        outcome |-> Throw("Invalid pattern for path regex")]
  /\ UNCHANGED <<basePath, baseUrl, pathClientKind, basicAuth,
                 hasGetAccessToken, authOverrides, runtime, middleware,
                 built, callCount, authVars>>

\* an operation invoked on the client object that was returned
ClientCall(c) ==
  /\ "raw" \in DOMAIN target
  /\ OperationCall(c[1], c[2])

\* the operations invoked on a constructed client
ConstructCalls == {<<"basic_getCharge", Undefined>>, <<"p2p_getNote", NoteOptions>>}

NextConstruct ==
  \/ Construct
  \/ \E c \in ConstructCalls : ClientCall(c)
  \/ \E r \in BagToSet(requests) : \E response \in Responses :
       FetchSettled(r, response)
  \/ \E r \in BagToSet(requests) : FetchFailed(r)

SpecConstruct == InitConstruct /\ [][NextConstruct]_vars

\* options.apiUrl: URLs with and without a path, and strings new URL rejects
BaseApiUrls ==
  {"https://test.trustap.com", "https://test.trustap.com/",
   "https://dev.trustap.com/api/v1/", "https://x.io/api/v2", "https://x.io//",
   "", "not a url", "stage.trustap.com/api/v3/"}

\* options.basePath
BaseBasePaths == {Undefined, Str(""), Str("/"), Str(" v2/ "), Str("/custom/")}

\* the operation invoked on the constructed client
BaseCalls ==
  {<<"basic_getCharge", Undefined>>, <<"basic_createTransaction", Undefined>>,
   <<"p2p_getNote", NoteOptions>>}

\* createTrustapClient({ apiUrl, basePath }) is about to be called
InitBase ==
  /\ basePath = ""
  /\ baseUrl = ""
  /\ pathClientKind = "proxy"
  /\ target = NoClient
  /\ built = [id \in OperationIds |-> 0]
  /\ last \in {[kind |-> "args", fn |-> "configure", apiUrl |-> u,
                basePathOption |-> b, call |-> c] :
                 u \in BaseApiUrls, b \in BaseBasePaths, c \in BaseCalls}
  /\ callCount = 0
  /\ NoAuthConfig

\* createTrustapClientCore: inferBaseConfig(apiUrl, basePathOption), then the
\* client is built
Configure ==
  /\ last.kind = "args" /\ last.fn = "configure"
  /\ \E cfg \in {inferBaseConfig(last.apiUrl, last.basePathOption)} :
       /\ basePath' = cfg.basePath
       /\ baseUrl' = cfg.baseUrl
  /\ target' = MergedTarget(pathClientKind)
  /\ last' = [kind |-> "configured", apiUrl |-> last.apiUrl,
              basePathOption |-> last.basePathOption, call |-> last.call]
  /\ UNCHANGED <<pathClientKind, basicAuth, hasGetAccessToken, authOverrides,
                 compiledSecurityMap, runtime, middleware, built, callCount,
                 authVars>>

\* client[opId](options): the call the transport receives
InvokeConfigured ==
  /\ last.kind = "configured"
  /\ last' = [kind |-> "based", apiUrl |-> last.apiUrl,
              basePathOption |-> last.basePathOption, call |-> last.call,
              sent |-> HandlerCall(MakeHandler(last.call[1], basePath, 1),
                                   last.call[2])]
  /\ UNCHANGED <<target, built, callCount, configVars, authVars>>

NextBase ==
  \/ Configure
  \/ InvokeConfigured

SpecBase == InitBase /\ [][NextBase]_vars

(***************************************************************************)
(* The helpers applied to drawn inputs                                     *)
(***************************************************************************)
\* path templates handed to compilePathTemplate
Templates ==
  {"/users/{userId}/posts/{postId}", "/items/{userId}/copies/{userId}",
   "/static/path", "{postId}", "/odd/{}/x{userId}y", "/api/v1/users/{userId}"}

TemplateKeys == {"userId", "postId"}

\* values a caller puts under a path parameter
ParamValues ==
  {Undefined, Null, Str("123"), Str("a/b c"), Num(42), Bool(TRUE),
   Custom("x y"), PlainObject}

\* params.path: undefined, or an object with some of the keys
ParamMappings ==
  {Undefined} \cup
    {Obj(f) : f \in UNION {[K -> ParamValues] : K \in SUBSET TemplateKeys}}

\* the arguments of compilePathTemplate(path)(pathParams)
ApplyTemplateArgs ==
  {[kind |-> "args", fn |-> "applyTemplate", path |-> path,
    pathParams |-> pathParams] :
     path \in Templates, pathParams \in ParamMappings}

\* a key the caller leaves out of an object
Absent == [t |-> "absent"]

\* the object with the given keys, those bound to Absent left out
ObjOf(f) == Obj([k \in {j \in DOMAIN f : f[j] # Absent} |-> f[k]])

QueryValues == {Undefined, Null, Query1, Obj(EmptyRec), Str("price=7")}
HeaderValues == {Absent, Obj([Accept |-> Str("application/json")])}
BodyValues == {Absent, Obj([amount |-> Num(5)])}
PathValues == {Absent, Obj([userId |-> Str("u 1")]), Obj([userId |-> PlainObject])}

\* { query: q, ...rest }, rest holding headers, body and params.path
LegacyShape(q, headers, body, path) ==
  ObjOf([query |-> q, headers |-> headers, body |-> body,
         params |-> IF path = Absent THEN Absent ELSE Obj([path |-> path])])

\* { params: { query: q }, ...rest }
ModernShape(q, headers, body, path) ==
  ObjOf([headers |-> headers, body |-> body,
         params |-> ObjOf([query |-> q, path |-> path])])

\* an operation and the fields of the two shapes it is invoked with
InvokeShapesArgs ==
  {[kind |-> "args", fn |-> "invokeShapes", opId |-> opId, q |-> q,
    headers |-> headers, body |-> body, path |-> path] :
     opId \in OperationIds, q \in QueryValues, headers \in HeaderValues,
     body \in BodyValues, path \in PathValues}

\* the values the caller puts under params
ParamsValues ==
  {Absent, Undefined, Str("x"), Obj(EmptyRec), Obj([query |-> Query2]),
   Obj([query |-> Undefined]), Obj([query |-> Null]),
   Obj([path |-> Obj([userId |-> Str("u 1")])]),
   Obj([query |-> Query2, path |-> Obj([userId |-> Str("u 1")])])}

\* the inputs of normalizeRequestOptions
NormalizeArgs ==
  {[kind |-> "args", fn |-> "normalize", options |-> options] :
     options \in {Undefined, Null, Str("query")} \cup
       {ObjOf([query |-> q, params |-> params, headers |-> headers]) :
          q \in {Absent, Undefined, Null, Query1},
          params \in ParamsValues, headers \in HeaderValues}}

\* entries a security map is made of
MapEntries ==
  {[path |-> "/charge", methods |-> [GET |-> <<"APIKey">>]],
   [path |-> "/{any}", methods |-> [GET |-> <<"OAuth2">>, POST |-> <<"OAuth2">>]],
   [path |-> "/users/me", methods |-> [GET |-> <<"APIKey">>]],
   [path |-> "/users/{userId}",
    methods |-> [GET |-> <<"OAuth2">>, DELETE |-> <<"APIKey">>]],
   [path |-> "/users/{id}", methods |-> [GET |-> <<>>, POST |-> <<"APIKey">>]],
   [path |-> "/files/{id}.json", methods |-> [GET |-> <<"APIKey">>]]}

MaxEntries == 3

\* sequences of distinct entries: the keys of an object are distinct
RECURSIVE EntrySeqs(_)
EntrySeqs(n) ==
  IF n = 0 THEN {<<>>}
  ELSE EntrySeqs(n - 1) \cup
       {Append(q, e) : q \in {x \in EntrySeqs(n - 1) : Len(x) = n - 1},
                       e \in MapEntries}

LookupMaps ==
  {Undefined} \cup
    {[entries |-> q] :
       q \in {x \in EntrySeqs(MaxEntries) :
                \A i, j \in 1..Len(x) : i # j => x[i].path # x[j].path}}

LookupPathnames ==
  {"/charge", "/users/me", "/users/u1", "/users/a/b", "/", "/files/f1.json",
   "/files/f1xjson"}
LookupMethods == {"GET", "POST", "DELETE"}

\* the arguments of a lookup in a compiled security map
LookupArgs ==
  {[kind |-> "args", fn |-> "lookup", map |-> map, pathname |-> pathname,
    method |-> method] :
     map \in LookupMaps, pathname \in LookupPathnames, method \in LookupMethods}

\* the arguments a helper is about to be applied to
FnArgs ==
  ApplyTemplateArgs \cup InvokeShapesArgs \cup NormalizeArgs \cup LookupArgs

\* a helper is about to be applied to drawn arguments
InitFn ==
  /\ \E cfg \in {inferBaseConfig(AuthApiUrl, Undefined)} :
       /\ basePath = cfg.basePath
       /\ baseUrl = cfg.baseUrl
  /\ pathClientKind = "proxy"
  /\ target = MergedTarget(pathClientKind)
  /\ built = [id \in OperationIds |-> 0]
  /\ last \in FnArgs
  /\ callCount = 0
  /\ NoAuthConfig

\* compilePathTemplate(path)(pathParams)
ApplyTemplate ==
  /\ last.kind = "args" /\ last.fn = "applyTemplate"
  /\ last' = [kind |-> "apply", path |-> last.path,
              pathParams |-> last.pathParams,
              result |-> applyParams(compilePathTemplate(last.path),
                                     last.pathParams)]
  /\ UNCHANGED <<target, built, callCount, configVars, authVars>>

\* the call a transport receives from client[opId](options), with the
\* URL the Web-standard transport builds for it
Dispatched(opId, options) ==
  LET out == HandlerCall(MakeHandler(opId, basePath, 1), options) IN
  IF out.ok
  THEN Ok([method |-> out.v.method, path |-> out.v.path,
           options |-> out.v.options,
           url |-> requestUrl(clientBaseUrl(baseUrl), out.v.path,
                              out.v.options)])
  ELSE out

\* client[opId]({ query: q, ...rest }) and
\* client[opId]({ params: { query: q }, ...rest })
InvokeShapes ==
  /\ last.kind = "args" /\ last.fn = "invokeShapes"
  /\ last' = [kind |-> "shapes", opId |-> last.opId, q |-> last.q,
              legacy |-> Dispatched(last.opId,
                 LegacyShape(last.q, last.headers, last.body, last.path)),
              modern |-> Dispatched(last.opId,
                 ModernShape(last.q, last.headers, last.body, last.path))]
  /\ UNCHANGED <<target, built, callCount, configVars, authVars>>

\* normalizeRequestOptions(options)
Normalize ==
  /\ last.kind = "args" /\ last.fn = "normalize"
  /\ last' = [kind |-> "normalize", options |-> last.options,
              result |-> normalizeRequestOptions(last.options)]
  /\ UNCHANGED <<target, built, callCount, configVars, authVars>>

\* resolveSecuritySchemes(compileSecurityMap(map), pathname, method)
Lookup ==
  /\ last.kind = "args" /\ last.fn = "lookup"
  /\ \E compiled \in {compileSecurityMap(last.map)} :
       /\ compiled.ok
       /\ last' = [kind |-> "lookup", map |-> last.map,
                   pathname |-> last.pathname, method |-> last.method,
                   result |-> resolveSecuritySchemes(compiled, last.pathname,
                                                     last.method)]
  /\ UNCHANGED <<target, built, callCount, configVars, authVars>>

NextFn ==
  \/ ApplyTemplate
  \/ InvokeShapes
  \/ Normalize
  \/ Lookup

SpecFn == InitFn /\ [][NextFn]_vars

(***************************************************************************)
(* Transaction state machines and webhook event mapping                    *)
(***************************************************************************)
TrustapOnlineTransactionState ==
  {"created", "joined", "rejected", "paid", "cancelled",
   "cancelled_with_payment", "payment_refunded", "tracked", "delivered",
   "complained", "complaint_period_ended", "funds_released"}

\* onlineStateTransitions with a successor that is no key of the table
onlineStateTransitionsDangling ==
  [created |-> <<"joined", "cancelled">>,
   joined |-> <<"cancelled", "paid">>,
   rejected |-> <<>>,
   paid |-> <<"tracked", "cancelled_with_payment">>,
   cancelled |-> <<>>,
   cancelled_with_payment |-> <<"payment_refunded">>,
   payment_refunded |-> <<>>,
   tracked |-> <<"delivered">>,
   delivered |-> <<"funds_released", "complained", "complaint_period_ended">>,
   complained |-> <<"funds_released", "deposit_refunded">>,
   complaint_period_ended |-> <<"funds_released">>,
   funds_released |-> <<>>]

onlineStateTransitions ==
  [created |-> <<"joined", "cancelled">>,
   joined |-> <<"cancelled", "paid">>,
   rejected |-> <<>>,
   paid |-> <<"tracked", "cancelled_with_payment">>,
   cancelled |-> <<>>,
   cancelled_with_payment |-> <<"payment_refunded">>,
   payment_refunded |-> <<>>,
   tracked |-> <<"delivered">>,
   delivered |-> <<"funds_released", "complained", "complaint_period_ended">>,
   complained |-> <<"funds_released", "payment_refunded">>,
   complaint_period_ended |-> <<"funds_released">>,
   funds_released |-> <<>>]

\* Array.prototype.includes
ArrayIncludes(array, x) == \E i \in 1..Len(array) : array[i] = x

\* table[from].includes(to): a boolean, or the TypeError of reading
\* includes of undefined when from is no key of the table
isValidTransitionIn(table, from, to) ==
  IF from \in DOMAIN table THEN Ok(ArrayIncludes(table[from], to))
  ELSE Throw("TypeError: Cannot read properties of undefined")

isValidOnlineTransition(from, to) ==
  isValidTransitionIn(onlineStateTransitions, from, to)

TrustapF2FTransactionState ==
  {"created", "joined", "rejected", "deposit_paid", "cancelled",
   "deposit_accepted", "remainder_skipped", "cancelled_with_deposit",
   "deposit_refunded", "buyer_handover_confirmed",
   "seller_handover_confirmed", "complained", "funds_released",
   "complaint_period_ended"}

\* f2fStateTransitions with a way back from deposit_paid to joined
f2fStateTransitionsCyclic ==
  [created |-> <<"joined", "rejected", "cancelled">>,
   joined |-> <<"cancelled", "deposit_paid">>,
   rejected |-> <<>>,
   deposit_paid |-> <<"deposit_accepted", "cancelled_with_deposit",
                      "remainder_skipped", "joined">>,
   cancelled |-> <<>>,
   deposit_accepted |-> <<"remainder_skipped", "cancelled_with_deposit">>,
   remainder_skipped |-> <<"buyer_handover_confirmed",
                           "seller_handover_confirmed", "complained">>,
   cancelled_with_deposit |-> <<"deposit_refunded">>,
   deposit_refunded |-> <<>>,
   buyer_handover_confirmed |-> <<"complained", "complaint_period_ended">>,
   seller_handover_confirmed |-> <<"complained", "complaint_period_ended",
                                   "funds_released">>,
   complained |-> <<"funds_released">>,
   funds_released |-> <<>>,
   complaint_period_ended |-> <<"funds_released">>]

f2fStateTransitions ==
  [created |-> <<"joined", "rejected", "cancelled">>,
   joined |-> <<"cancelled", "deposit_paid">>,
   rejected |-> <<>>,
   deposit_paid |-> <<"deposit_accepted", "cancelled_with_deposit",
                      "remainder_skipped">>,
   cancelled |-> <<>>,
   deposit_accepted |-> <<"remainder_skipped", "cancelled_with_deposit">>,
   remainder_skipped |-> <<"buyer_handover_confirmed",
                           "seller_handover_confirmed", "complained">>,
   cancelled_with_deposit |-> <<"deposit_refunded">>,
   deposit_refunded |-> <<>>,
   buyer_handover_confirmed |-> <<"complained", "complaint_period_ended">>,
   seller_handover_confirmed |-> <<"complained", "complaint_period_ended",
                                   "funds_released">>,
   complained |-> <<"funds_released">>,
   funds_released |-> <<>>,
   complaint_period_ended |-> <<"funds_released">>]

isValidF2FTransition(from, to) ==
  isValidTransitionIn(f2fStateTransitions, from, to)

f2fWebhookEventCodes ==
  <<"p2p_tx.joined", "p2p_tx.rejected", "p2p_tx.cancelled", "p2p_tx.claimed",
    "p2p_tx.deposit_payment_failed", "p2p_tx.deposit_paid",
    "p2p_tx.deposit_review_flagged", "p2p_tx.deposit_review_finished",
    "p2p_tx.deposit_refunded", "p2p_tx.deposit_accepted", "p2p_tx.priced",
    "p2p_tx.remainder_skipped", "p2p_tx.remainder_paid",
    "p2p_tx.remainder_review_flagged", "p2p_tx.remainder_review_finished",
    "p2p_tx.buyer_handover_confirmed", "p2p_tx.seller_handover_confirmed",
    "p2p_tx.complained", "p2p_tx.funds_released", "p2p_tx.funds_refunded">>

\* eventStateMap of mapWebhookToF2FState
f2fEventStateMap ==
  "p2p_tx.joined" :> "joined" @@
  "p2p_tx.rejected" :> "rejected" @@
  "p2p_tx.cancelled" :> "cancelled" @@
  "p2p_tx.claimed" :> "created" @@
  "p2p_tx.deposit_payment_failed" :> "joined" @@
  "p2p_tx.deposit_paid" :> "deposit_paid" @@
  "p2p_tx.deposit_review_flagged" :> "deposit_paid" @@
  "p2p_tx.deposit_review_finished" :> "deposit_paid" @@
  "p2p_tx.deposit_refunded" :> "deposit_refunded" @@
  "p2p_tx.deposit_accepted" :> "deposit_accepted" @@
  "p2p_tx.priced" :> "deposit_accepted" @@
  "p2p_tx.remainder_skipped" :> "remainder_skipped" @@
  "p2p_tx.remainder_paid" :> "remainder_skipped" @@
  "p2p_tx.remainder_review_flagged" :> "remainder_skipped" @@
  "p2p_tx.remainder_review_finished" :> "remainder_skipped" @@
  "p2p_tx.buyer_handover_confirmed" :> "buyer_handover_confirmed" @@
  "p2p_tx.seller_handover_confirmed" :> "seller_handover_confirmed" @@
  "p2p_tx.complained" :> "complained" @@
  "p2p_tx.funds_released" :> "funds_released" @@
  "p2p_tx.funds_refunded" :> "deposit_refunded"

\* if (!codes.includes(eventType)) return null;
\* return eventStateMap[eventType] ?? null
mapWebhookWith(codes, eventStateMap, eventType) ==
  IF ~ArrayIncludes(codes, eventType) THEN Null
  ELSE IF eventType \in DOMAIN eventStateMap
  THEN Str(eventStateMap[eventType])
  ELSE Null

mapWebhookToF2FState(eventType) ==
  mapWebhookWith(f2fWebhookEventCodes, f2fEventStateMap, eventType)

onlineWebhookEventCodes ==
  <<"basic_tx.joined", "basic_tx.rejected", "basic_tx.cancelled",
    "basic_tx.claimed", "basic_tx.listing_transaction_accepted",
    "basic_tx.listing_transaction_rejected", "basic_tx.payment_failed",
    "basic_tx.paid", "basic_tx.payment_refunded",
    "basic_tx.payment_review_flagged", "basic_tx.payment_review_finished",
    "basic_tx.tracking_details_submission_deadline_extended",
    "basic_tx.tracked", "basic_tx.delivered", "basic_tx.complained",
    "basic_tx.complaint_period_ended", "basic_tx.funds_released",
    "basic_tx.funds_refunded">>

\* eventStateMap of mapWebhookToOnlineState
onlineEventStateMap ==
  "basic_tx.joined" :> "joined" @@
  "basic_tx.rejected" :> "rejected" @@
  "basic_tx.cancelled" :> "cancelled" @@
  "basic_tx.claimed" :> "created" @@
  "basic_tx.listing_transaction_accepted" :> "joined" @@
  "basic_tx.listing_transaction_rejected" :> "rejected" @@
  "basic_tx.payment_failed" :> "created" @@
  "basic_tx.paid" :> "paid" @@
  "basic_tx.payment_refunded" :> "payment_refunded" @@
  "basic_tx.payment_review_flagged" :> "paid" @@
  "basic_tx.payment_review_finished" :> "paid" @@
  "basic_tx.tracking_details_submission_deadline_extended" :> "tracked" @@
  "basic_tx.tracked" :> "tracked" @@
  "basic_tx.delivered" :> "delivered" @@
  "basic_tx.complained" :> "complained" @@
  "basic_tx.complaint_period_ended" :> "complaint_period_ended" @@
  "basic_tx.funds_released" :> "funds_released" @@
  "basic_tx.funds_refunded" :> "payment_refunded"

\* mapWebhookToOnlineState that falls back to a state for an unknown code
mapWebhookToOnlineStateDefault(eventType) ==
  IF eventType \in DOMAIN onlineEventStateMap
  THEN Str(onlineEventStateMap[eventType])
  ELSE Str("created")

mapWebhookToOnlineState(eventType) ==
  mapWebhookWith(onlineWebhookEventCodes, onlineEventStateMap, eventType)

TrustapTransactionState ==
  {"created", "joined", "rejected", "paid", "cancelled",
   "cancelled_with_payment", "payment_refunded", "tracked", "delivered",
   "complained", "complaint_period_ended", "funds_released"}

trustapWebhookEventCodes ==
  <<"basic_tx.joined", "basic_tx.rejected", "basic_tx.cancelled",
    "basic_tx.claimed", "basic_tx.listing_transaction_accepted",
    "basic_tx.listing_transaction_rejected", "basic_tx.payment_failed",
    "basic_tx.paid", "basic_tx.payment_refunded",
    "basic_tx.payment_review_flagged", "basic_tx.payment_review_finished",
    "basic_tx.tracking_details_submission_deadline_extended",
    "basic_tx.tracked", "basic_tx.delivered", "basic_tx.complained",
    "basic_tx.complaint_period_ended", "basic_tx.funds_released",
    "basic_tx.funds_refunded">>

\* eventStateMap of mapWebhookToTrustapState
trustapEventStateMap ==
  "basic_tx.joined" :> "joined" @@
  "basic_tx.rejected" :> "rejected" @@
  "basic_tx.cancelled" :> "cancelled" @@
  "basic_tx.claimed" :> "created" @@
  "basic_tx.listing_transaction_accepted" :> "joined" @@
  "basic_tx.listing_transaction_rejected" :> "rejected" @@
  "basic_tx.payment_failed" :> "created" @@
  "basic_tx.paid" :> "paid" @@
  "basic_tx.payment_refunded" :> "payment_refunded" @@
  "basic_tx.payment_review_flagged" :> "paid" @@
  "basic_tx.payment_review_finished" :> "paid" @@
  "basic_tx.tracking_details_submission_deadline_extended" :> "tracked" @@
  "basic_tx.tracked" :> "tracked" @@
  "basic_tx.delivered" :> "delivered" @@
  "basic_tx.complained" :> "complained" @@
  "basic_tx.complaint_period_ended" :> "complaint_period_ended" @@
  "basic_tx.funds_released" :> "funds_released" @@
  "basic_tx.funds_refunded" :> "payment_refunded"

\* mapWebhookToTrustapState without the code added last to the online list
mapWebhookToTrustapStateStale(eventType) ==
  IF eventType = "basic_tx.funds_refunded" THEN Null
  ELSE mapWebhookWith(trustapWebhookEventCodes, trustapEventStateMap,
                      eventType)

mapWebhookToTrustapState(eventType) ==
  mapWebhookWith(trustapWebhookEventCodes, trustapEventStateMap, eventType)

\* event types a webhook delivers: every code of the three lists and
\* strings of none of them
EventTypes ==
  {f2fWebhookEventCodes[i] : i \in 1..Len(f2fWebhookEventCodes)}
    \cup {onlineWebhookEventCodes[i] : i \in 1..Len(onlineWebhookEventCodes)}
    \cup {"", "joined", "paid", "basic_tx.unknown", "p2p_tx.paid",
          "basic_tx.deposit_paid", "BASIC_TX.PAID", "basic_tx.paid ",
          "basic_tx", "constructor", "toString", "__proto__"}

\* the arguments of a mapping function
MapWebhookArgs ==
  {[kind |-> "args", fn |-> fn, eventType |-> e] :
     fn \in {"online", "f2f", "trustap"}, e \in EventTypes}

\* states either table or type names
StateNames == TrustapOnlineTransactionState \cup TrustapF2FTransactionState

\* a transaction of either flow in a declared state
Transactions ==
  {[kind |-> "tx", flow |-> "online", state |-> st, hops |-> 0] :
     st \in DOMAIN onlineStateTransitions}
    \cup {[kind |-> "tx", flow |-> "f2f", state |-> st, hops |-> 0] :
            st \in DOMAIN f2fStateTransitions}

InitWebhooks ==
  /\ \E cfg \in {inferBaseConfig(AuthApiUrl, Undefined)} :
       /\ basePath = cfg.basePath
       /\ baseUrl = cfg.baseUrl
  /\ pathClientKind = "proxy"
  /\ target = MergedTarget(pathClientKind)
  /\ built = [id \in OperationIds |-> 0]
  /\ last \in MapWebhookArgs \cup Transactions
  /\ callCount = 0
  /\ NoAuthConfig

\* the record of a mapping function applied to the drawn event type
Mapped(result) ==
  [kind |-> "mapped", fn |-> last.fn, eventType |-> last.eventType,
   result |-> result]

MapOnline ==
  /\ last.kind = "args" /\ last.fn = "online"
  /\ last' = Mapped(mapWebhookToOnlineState(last.eventType))
  /\ UNCHANGED <<target, built, callCount, configVars, authVars>>

MapF2F ==
  /\ last.kind = "args" /\ last.fn = "f2f"
  /\ last' = Mapped(mapWebhookToF2FState(last.eventType))
  /\ UNCHANGED <<target, built, callCount, configVars, authVars>>

MapTrustap ==
  /\ last.kind = "args" /\ last.fn = "trustap"
  /\ last' = Mapped(mapWebhookToTrustapState(last.eventType))
  /\ UNCHANGED <<target, built, callCount, configVars, authVars>>

\* a move to the state to that the flow's isValid...Transition accepts
Transition(flow, accepted, to) ==
  /\ last.kind = "tx" /\ last.flow = flow
  /\ accepted.ok /\ accepted.v
  /\ last' = [last EXCEPT !.state = to, !.hops = @ + 1]
  /\ UNCHANGED <<target, built, callCount, configVars, authVars>>

OnlineTransition(to) ==
  /\ last.kind = "tx"
  /\ Transition("online", isValidOnlineTransition(last.state, to), to)

F2FTransition(to) ==
  /\ last.kind = "tx"
  /\ Transition("f2f", isValidF2FTransition(last.state, to), to)

NextWebhooks ==
  \/ MapOnline
  \/ MapF2F
  \/ MapTrustap
  \/ \E to \in StateNames : OnlineTransition(to)
  \/ \E to \in StateNames : F2FTransition(to)

SpecWebhooks == InitWebhooks /\ [][NextWebhooks]_vars

\* what a caller supplies for one path parameter
PathParamValues == {Absent, Null, Undefined, Str("u1"), Num(42)}

\* options of an operation with path parameters: params.path absent, or an
\* object with a drawn value for each placeholder
PathParamCalls ==
  {[opId |-> "oauth_getUser", options |-> ObjOf([params |-> ObjOf([query |-> q])])] :
     q \in {Absent, Query1}}
    \cup {[opId |-> "oauth_getUser",
           options |-> ObjOf([params |-> ObjOf([query |-> q,
                                path |-> ObjOf([userId |-> v])])])] :
            q \in {Absent, Query1}, v \in PathParamValues}
    \cup {[opId |-> "p2p_getNote",
           options |-> ObjOf([params |-> ObjOf([query |-> q,
                                path |-> ObjOf([id |-> v, n |-> w])])])] :
            q \in {Absent, Query1}, v \in PathParamValues, w \in PathParamValues}

\* new Request(url).url: the serialized URL, its path percent-encoded
requestUrlSerialized(url) ==
  LET parsed == parseURL(url)
      quest == IndexFrom(url, "?", 1)
  IN IF ~parsed.ok THEN url
     ELSE parsed.protocol \o "//" \o parsed.host \o parsed.pathname
            \o (IF quest = 0 THEN "" ELSE Slice(url, quest - 1))

\* a client of the Web-standard entry and the call about to be made on it
InitParams ==
  /\ \E cfg \in {inferBaseConfig(AuthApiUrl, Undefined)} :
       /\ basePath = cfg.basePath
       /\ baseUrl = cfg.baseUrl
  /\ pathClientKind = "proxy"
  /\ target = MergedTarget(pathClientKind)
  /\ built = [id \in OperationIds |-> 0]
  /\ last \in {[kind |-> "args", fn |-> "params", opId |-> c.opId,
                options |-> c.options] : c \in PathParamCalls}
  /\ callCount = 0
  /\ NoAuthConfig

\* client[opId](options): the handler hands method, path and options to the
\* transport
DispatchParams ==
  /\ last.kind = "args" /\ last.fn = "params"
  /\ last' = [kind |-> "dispatched", opId |-> last.opId,
              options |-> last.options,
              sent |-> HandlerCall(MakeHandler(last.opId, basePath, 1),
                                   last.options)]
  /\ UNCHANGED <<target, built, callCount, configVars, authVars>>

\* buildRequest: the URL string and the URL of the Request made from it
BuildRequest ==
  /\ last.kind = "dispatched" /\ last.sent.ok
  /\ \E url \in {requestUrl(clientBaseUrl(baseUrl), last.sent.v.path,
                            last.sent.v.options)} :
       last' = [kind |-> "request", opId |-> last.opId,
                options |-> last.options, path |-> last.sent.v.path,
                urlString |-> url, url |-> requestUrlSerialized(url)]
  /\ UNCHANGED <<target, built, callCount, configVars, authVars>>

NextParams ==
  \/ DispatchParams
  \/ BuildRequest

SpecParams == InitParams /\ [][NextParams]_vars

\* a reference to the object at address a of the heap
Ref(a) == [t |-> "ref", a |-> a]

\* the caller's objects: the options object at address 1 and, when
\* options.params is an object, that object at address 2
CallerHeap(options) ==
  IF options.t # "obj" THEN <<>>
  ELSE IF Prop(options, "params").t = "obj"
  THEN <<WithKey(options.o, "params", Ref(2)), Prop(options, "params").o>>
  ELSE <<options.o>>

\* the argument handed to normalizeRequestOptions
CallerRef(options) == IF options.t = "obj" THEN Ref(1) ELSE options

\* the value a reference stands for
RECURSIVE Deref(_, _)
Deref(heap, v) ==
  IF v.t = "ref"
  THEN Obj([k \in DOMAIN heap[v.a] |-> Deref(heap, heap[v.a][k])])
  ELSE v

\* normalizeRequestOptions on objects held by reference; spread says
\* whether params is { ...original.params } or original.params itself
normalizeRequestOptionsWith(heap, options, spread) ==
  IF options.t # "ref" THEN [heap |-> heap, result |-> options]
  ELSE
    LET original == heap[options.a]
        op == IF "params" \in DOMAIN original THEN original["params"]
              ELSE Undefined
        isRef == op.t = "ref"
        isOther == ~isRef /\ Truthy(op) /\ IsObject(op)
        heap1 == IF isRef /\ spread THEN Append(heap, heap[op.a])
                 ELSE IF isOther THEN Append(heap, EmptyRec)
                 ELSE heap
        params == IF isRef /\ ~spread THEN op
                  ELSE IF isRef \/ isOther THEN Ref(Len(heap1))
                  ELSE Undefined
    IN IF "query" \in DOMAIN original THEN
         LET query == original["query"]
             rest == WithoutKey(original, "query")
             heap2 == IF params = Undefined THEN Append(heap1, EmptyRec)
                      ELSE heap1
             nextParams == IF params = Undefined THEN Ref(Len(heap2))
                           ELSE params
             cur == heap2[nextParams.a]
             heap3 == IF "query" \notin DOMAIN cur \/ cur["query"] = Undefined
                      THEN [heap2 EXCEPT
                              ![nextParams.a] = WithKey(cur, "query", query)]
                      ELSE heap2
             heap4 == Append(heap3, WithKey(rest, "params", nextParams))
         IN [heap |-> heap4, result |-> Ref(Len(heap4))]
       ELSE IF params # Undefined
       THEN LET heap2 == Append(heap1, WithKey(original, "params", params))
            IN [heap |-> heap2, result |-> Ref(Len(heap2))]
       ELSE [heap |-> heap1, result |-> options]

\* normalizeRequestOptions that works on the caller's params object
normalizeRequestOptionsInPlace(heap, options) ==
  normalizeRequestOptionsWith(heap, options, FALSE)

normalizeRequestOptionsOnHeap(heap, options) ==
  normalizeRequestOptionsWith(heap, options, TRUE)

\* the caller holds an options value and is about to have it normalized
InitHeap ==
  /\ \E cfg \in {inferBaseConfig(AuthApiUrl, Undefined)} :
       /\ basePath = cfg.basePath
       /\ baseUrl = cfg.baseUrl
  /\ pathClientKind = "proxy"
  /\ target = MergedTarget(pathClientKind)
  /\ built = [id \in OperationIds |-> 0]
  /\ last \in {[kind |-> "args", fn |-> "normalizeOnHeap",
                options |-> a.options] : a \in NormalizeArgs}
  /\ callCount = 0
  /\ NoAuthConfig

\* normalizeRequestOptions(options), the caller's objects before and the
\* heap after
NormalizeOnHeap ==
  /\ last.kind = "args" /\ last.fn = "normalizeOnHeap"
  /\ \E r \in {normalizeRequestOptionsOnHeap(CallerHeap(last.options),
                                             CallerRef(last.options))} :
       last' = [kind |-> "heap", options |-> last.options,
                before |-> CallerHeap(last.options),
                after |-> r.heap, result |-> r.result]
  /\ UNCHANGED <<target, built, callCount, configVars, authVars>>

NextHeap == NormalizeOnHeap

SpecHeap == InitHeap /\ [][NextHeap]_vars

(***************************************************************************)
(* Properties of authentication                                            *)
(***************************************************************************)
InFlight == BagToSet(requests)

\* new URL(request.url).pathname
FullPathnameOf(r) == r.fullPathname
\* the normalized pathname the middleware looks up
PathnameOf(r) == r.pathname
OverrideOf(r) == overrideFor(authOverrides, PathnameOf(r), FullPathnameOf(r))

HasBasic(r) == r.auth.scheme = "Basic"

DeclaresApiKey(r) ==
  SeqIncludes(resolveSecuritySchemes(compiledSecurityMap, PathnameOf(r), r.method),
              "APIKey")

\* the map declares APIKey, or the pathname ends with /charge or /guest_users
BasicByDefault(r) ==
  \/ DeclaresApiKey(r)
  \/ EndsWith(PathnameOf(r), "/charge")
  \/ EndsWith(PathnameOf(r), "/guest_users")

\* the supplier was asked, and once it answered the request carries
\* Bearer <token> for a non-empty token and no Authorization otherwise
BearerTreatment(r) ==
  /\ r.token # NotAsked
  /\ r.pc = "fetch" =>
       r.auth = (IF r.token \in {Str(""), Null} THEN NoHeader
                 ELSE BearerHeader(r.token.v))

\* what a request without override gets
DefaultTreatment(r) ==
  IF basicAuth # Undefined /\ BasicByDefault(r)
  THEN HasBasic(r) /\ r.token = NotAsked
  ELSE IF hasGetAccessToken THEN BearerTreatment(r)
  ELSE r.auth = NoHeader /\ r.token = NotAsked

\* C1: a request that reaches the middleware with an Authorization header
\* leaves it with the same Authorization value, and the middleware neither
\* waits for the supplier nor encodes credentials for it
C1_AuthorizationKept ==
  \A r \in InFlight :
    r.inAuth # NoHeader =>
      r.pc = "fetch" /\ r.auth = r.inAuth /\ r.token = NotAsked

\* a request with its own Authorization on a path where the middleware
\* would otherwise attach Basic, and one where it would ask the supplier
C1_Witness ==
  /\ basicAuth # Undefined /\ hasGetAccessToken
  /\ \E r \in InFlight :
       /\ r.inAuth = CustomHeader /\ r.auth = CustomHeader
       /\ OverrideOf(r) = Undefined /\ BasicByDefault(r)

C3_WitnessAuto ==
  \E r \in InFlight :
    OverrideOf(r) = Str("auto") /\ HasBasic(r) /\ ~DeclaresApiKey(r)

C4_WitnessEmpty ==
  \E r \in InFlight :
    r.pc = "fetch" /\ r.token = Str("") /\ r.auth = NoHeader

\* the Basic header value of the configured credentials
ExpectedBasicToken ==
  IF HasOwn(basicAuth, "password") THEN "a2V5MTpwdw==" ELSE "a2V5MTo="

\* C5: the credentials are encoded at most once, the memoized token never
\* changes, and every Basic header carries it
C5_BasicTokenMemoized ==
  /\ [](encodeCalls <= 1)
  /\ [](\A r \in InFlight :
          HasBasic(r) => /\ cached = Str(r.auth.value)
                         /\ r.auth.value = ExpectedBasicToken
                         /\ encodeCalls = 1)
  /\ [][cached # Undefined => cached' = cached]_vars

\* two Basic requests on different paths in flight after one encoding
C5_Witness ==
  /\ encodeCalls = 1
  /\ \E r1, r2 \in InFlight :
       /\ HasBasic(r1) /\ HasBasic(r2) /\ r1.url # r2.url
       /\ r1.auth = r2.auth

(***************************************************************************)
(* Properties of the operation dispatcher                                  *)
(***************************************************************************)
\* keys Object.assign put on the client at construction
MergedKeys == DOMAIN MergedTarget(pathClientKind)

\* operation ids whose mapping names a verb the handler's switch lacks
UnsupportedOps ==
  {id \in OperationIds : toUpperCase(operationIdToPath[id].method) \notin HttpMethods}

UnsupportedMessage(id) ==
  "Unsupported method " \o operationIdToPath[id].method \o " for " \o id

\* C6 as stated: reading any property name that is not an operation id
\* yields undefined
C6_AsStated ==
  (last.kind = "get" /\ last.name \notin OperationIds)
    => last.value = Undefined

\* C6 (amended): reading a property name that is neither an operation id,
\* nor a key merged onto the client at construction (raw, the path-based
\* client's own keys), nor a property inherited from Object.prototype,
\* yields undefined and does not throw, whatever the handler cache holds
C6_UnknownIsUndefined ==
  (last.kind = "get"
     /\ last.name \notin OperationIds \cup MergedKeys \cup ObjectPrototypeProps)
    => last.value = Undefined

C6_Witness ==
  /\ last.kind = "get"
  /\ last.name = "nonexistent.operation"
  /\ last.value = Undefined
  /\ \E id \in OperationIds : id \in DOMAIN target

\* C7: the handler of an operation id is built exactly once, on the first
\* access, and every later access returns that same handler
C7_HandlerBuiltOnce ==
  /\ [](\A id \in OperationIds :
          /\ built[id] = (IF id \in DOMAIN target THEN 1 ELSE 0)
          /\ (id \in DOMAIN target => target[id].gen = 1))
  /\ [](last.kind = "get" /\ last.name \in OperationIds
          => last.value = target[last.name])
  /\ [](last.kind = "invoke" => last.handler = target[last.opId])
  /\ [][\A id \in OperationIds :
          id \in DOMAIN target => target'[id] = target[id]]_vars

C7_Witness ==
  /\ last.kind = "get"
  /\ last.name = "basic_getCharge"
  /\ callCount >= 2
  /\ Cardinality({id \in OperationIds : built[id] = 1}) >= 3

\* the path a call of operation id with requestOptions must carry
ExpectedPath(id, requestOptions) ==
  applyParams(
    compilePathTemplate(joinPaths(basePath, operationIdToPath[id].path)),
    Prop(getParams(normalizeRequestOptions(requestOptions)), "path"))

CallIsExpected(id, requestOptions, out, before) ==
  /\ out.ok
  /\ callCount = before + 1
  /\ out.v.method = toUpperCase(operationIdToPath[id].method)
  /\ out.v.path = ExpectedPath(id, requestOptions).v
  /\ out.v.options = normalizeRequestOptions(requestOptions)

\* C8 as stated: every invocation of a handler issues exactly one call on
\* the transport, with the mapping's verb, the joined and applied path and
\* the normalized options
C8_AsStated ==
  last.kind = "invoke"
    => CallIsExpected(last.opId, last.options, last.outcome, last.callsBefore)

\* C8 (amended): an invocation whose mapping names a supported verb and
\* whose path parameters can be applied issues exactly one call on the
\* transport, with the mapping's verb, the joined and applied path and the
\* normalized options; every other invocation throws and issues no call
C8_OneCallPerInvocation ==
  last.kind = "invoke" =>
    IF last.opId \notin UnsupportedOps
         /\ ExpectedPath(last.opId, last.options).ok
    THEN CallIsExpected(last.opId, last.options, last.outcome, last.callsBefore)
    ELSE ~last.outcome.ok /\ callCount = last.callsBefore

C8_Witness ==
  /\ last.kind = "invoke"
  /\ last.opId = "oauth_getUser"
  /\ last.outcome.ok
  /\ last.outcome.v.path = basePath \o "/users/u%201"
  /\ basePath = "/v2"
  /\ built["basic_getCharge"] = 1
  /\ callCount = 2

C10_AsStated ==
  /\ (last.kind = "get" /\ last.name \notin OperationIds \cup {"raw", "then"}
        /\ PathClientGet(pathClientKind, last.name) # Undefined
        => last.value = PathClientGet(pathClientKind, last.name))
  /\ (last.kind = "get" /\ last.name = "raw" => last.value = ClientValue)

(***************************************************************************)
(* Properties of path templates                                            *)
(***************************************************************************)
\* the caller supplies a value for key that is neither null nor undefined
Supplied(pathParams, key) ==
  HasOwn(pathParams, key) /\ pathParams.o[key] \notin {Undefined, Null}

\* the value types toPathParamSegment turns into text
HasStringForm(value) == value.t \in {"str", "num", "bool", "custom"}

\* the template read left to right, each placeholder {name} replaced by
\* the URL-encoded String(value) when a value is supplied and kept otherwise
RECURSIVE Substituted(_, _)
Substituted(template, pathParams) ==
  IF template = "" THEN ""
  ELSE IF MatchAt(template, 1)
  THEN LET q == NextBrace(template, 1)
           key == SubSeq(template, 2, q - 1)
       IN (IF Supplied(pathParams, key)
           THEN encodeURIComponent(StringOf(pathParams.o[key]))
           ELSE SubSeq(template, 1, q))
          \o Substituted(Slice(template, q), pathParams)
  ELSE Ch(template, 1) \o Substituted(Slice(template, 1), pathParams)

\* the placeholders of the template whose supplied value has no string form
RECURSIVE Unsupported(_, _)
Unsupported(template, pathParams) ==
  IF template = "" THEN {}
  ELSE IF MatchAt(template, 1)
  THEN LET q == NextBrace(template, 1)
           key == SubSeq(template, 2, q - 1)
       IN (IF Supplied(pathParams, key) /\ ~HasStringForm(pathParams.o[key])
           THEN {key} ELSE {})
          \cup Unsupported(Slice(template, q), pathParams)
  ELSE Unsupported(Slice(template, 1), pathParams)

C12_LegacyEqualsModern ==
  last.kind = "shapes" =>
    /\ last.legacy = last.modern
    /\ last.legacy.ok =>
         /\ HasOwn(Prop(last.legacy.v.options, "params"), "query")
         /\ Prop(Prop(last.legacy.v.options, "params"), "query") = last.q
         /\ ~HasOwn(last.legacy.v.options, "query")

\* both shapes of a charge query reached the transport with the query string
C12_Witness ==
  /\ last.kind = "shapes" /\ last.q = Query1
  /\ last.legacy.ok /\ last.modern.ok
  /\ last.legacy.v.url = "https://dev.trustap.com/api/v1/charge?price=1234"

\* C13: the normalized form of an object has no top-level query; with a
\* top-level query and params.query already set, params.query keeps the
\* input's params.query; with only the top-level query, params.query is
\* that value
C13_OneQueryLocation ==
  (last.kind = "normalize" /\ last.options.t = "obj") =>
    LET inParams == Prop(last.options, "params")
        outParams == Prop(last.result, "params")
    IN /\ ~HasOwn(last.result, "query")
       /\ (HasOwn(last.options, "query") /\ Prop(inParams, "query") # Undefined)
            => Prop(outParams, "query") = Prop(inParams, "query")
       /\ (HasOwn(last.options, "query") /\ Prop(inParams, "query") = Undefined)
            => /\ HasOwn(outParams, "query")
               /\ Prop(outParams, "query") = last.options.o["query"]

\* both locations given: the legacy value is dropped
C13_Witness ==
  /\ last.kind = "normalize"
  /\ last.options = Obj([query |-> Query1, params |-> Obj([query |-> Query2])])
  /\ last.result = Obj([params |-> Obj([query |-> Query2])])

(***************************************************************************)
(* Properties of the security map                                          *)
(***************************************************************************)
\* the entries of the map looked up in
EntriesOf(map) == IF map = Undefined THEN <<>> ELSE map.entries

\* positions of the placeholder-free entry for pathname
ExactAt(map, pathname) ==
  {i \in 1..Len(EntriesOf(map)) :
     /\ EntriesOf(map)[i].path = pathname
     /\ ~Includes(EntriesOf(map)[i].path, "{")}

\* positions of the parameterized entries whose pattern matches pathname
PatternsAt(map, pathname) ==
  {i \in 1..Len(EntriesOf(map)) :
     /\ Includes(EntriesOf(map)[i].path, "{")
     /\ RegexTest("^" \o regexPathOf(EntriesOf(map)[i].path) \o "$", pathname)}

\* C14: a lookup of a pathname with an exact entry that declares the method
\* returns the exact entry's schemes, wherever the matching parameterized
\* entries stand in the map
C14_ExactBeforePattern ==
  last.kind = "lookup" =>
    \A i \in ExactAt(last.map, last.pathname) :
      last.method \in DOMAIN last.map.entries[i].methods
        => last.result = last.map.entries[i].methods[last.method]

\* the parameterized entry is declared first, matches and declares the
\* method with other schemes, and the exact entry's schemes are returned
C14_Witness ==
  /\ last.kind = "lookup" /\ last.pathname = "/charge" /\ last.method = "GET"
  /\ \E i \in ExactAt(last.map, last.pathname) :
     \E j \in PatternsAt(last.map, last.pathname) :
       /\ j < i
       /\ last.method \in DOMAIN last.map.entries[j].methods
       /\ last.map.entries[j].methods[last.method] # last.result
       /\ last.result = last.map.entries[i].methods[last.method]

\* C15: a lookup of a pathname whose exact entry does not declare the
\* method returns the empty scheme list
C15_AsStated ==
  last.kind = "lookup" =>
    \A i \in ExactAt(last.map, last.pathname) :
      last.method \notin DOMAIN last.map.entries[i].methods
        => last.result = <<>>

(***************************************************************************)
(* Properties of failures                                                  *)
(***************************************************************************)
\* C16: a response with a non-success status settles the call with a
\* resolved { error, response } whose response carries the status and
\* whose data is undefined
C16_AsStated ==
  (last.kind = "settled" /\ last.fetched /\ last.status \notin {0} \cup 200..299)
    => /\ last.outcome.ok
       /\ "error" \in DOMAIN last.outcome.v
       /\ last.outcome.v.status = last.status

\* the call rejected with the value e
RejectedWith(outcome, e) == ~outcome.ok /\ outcome.v = e

\* index of the first registered middleware whose hook throws, or 0
FirstThrowing(mws, hook) ==
  IF \E i \in 1..Len(mws) : mws[i][hook] = "throw"
  THEN CHOOSE i \in 1..Len(mws) :
         /\ mws[i][hook] = "throw"
         /\ \A j \in 1..(i - 1) : mws[j][hook] # "throw"
  ELSE 0

\* this step settles a call with an outcome other than the one before it
Settles ==
  /\ last'.kind = "settled"
  /\ \/ last.kind # "settled"
     \/ last.fetched # last'.fetched
     \/ last.status # last'.status
     \/ last.token # last'.token
     \/ last.outcome.ok # last'.outcome.ok
     \/ last.outcome.v # last'.outcome.v

\* C17: a call that settles without a fetch rejects with the very value the
\* supplier or the throwing request hook produced; a call whose response
\* hook throws rejects with that hook's value; and while a request hook
\* throws, no request is handed to fetch
C17_RejectionsPropagate ==
  [][LET req == FirstThrowing(middleware, "onRequest")
         resp == FirstThrowing(middleware, "onResponse")
     IN /\ req # 0 =>
             \A r \in BagToSet(requests') :
               r.pc = "fetch" => CopiesIn(r, requests') <= CopiesIn(r, requests)
        /\ Settles =>
             /\ ~last'.fetched =>
                  \/ RejectedWith(last'.outcome, SupplierError)
                  \/ /\ req # 0
                     /\ RejectedWith(last'.outcome, HookError(middleware[req].id, "onRequest"))
             /\ (last'.fetched /\ last'.status # 0 /\ resp # 0) =>
                  RejectedWith(last'.outcome, HookError(middleware[resp].id, "onResponse"))
             /\ (last'.fetched /\ last'.status = 0) =>
                  RejectedWith(last'.outcome, "fetch failed")]_vars

\* the supplier rejected while a middleware was registered: the call
\* settled with the supplier's value and without a fetch
C17_Witness ==
  /\ last.kind = "settled" /\ ~last.fetched
  /\ RejectedWith(last.outcome, SupplierError)
  /\ Len(middleware) > 0

\* a request hook threw
C17_WitnessRequestHook ==
  /\ last.kind = "settled" /\ ~last.fetched
  /\ RejectedWith(last.outcome, HookError("m2", "onRequest"))

\* a response hook threw
C17_WitnessResponseHook ==
  /\ last.kind = "settled" /\ last.fetched
  /\ RejectedWith(last.outcome, HookError("m3", "onResponse"))

(***************************************************************************)
(* Properties of the webhook mapping and the transition tables             *)
(***************************************************************************)
\* the known codes and the declared states of a mapping function
KnownCodes(fn) ==
  LET codes == IF fn = "online" THEN onlineWebhookEventCodes
               ELSE IF fn = "f2f" THEN f2fWebhookEventCodes
               ELSE trustapWebhookEventCodes
  IN {codes[i] : i \in 1..Len(codes)}

DeclaredStates(fn) ==
  IF fn = "online" THEN TrustapOnlineTransactionState
  ELSE IF fn = "f2f" THEN TrustapF2FTransactionState
  ELSE TrustapTransactionState

\* C18: each of the three mapping functions returns a declared state for
\* every code of its known list and null for every other string
C18_MappingTotal ==
  last.kind = "mapped" =>
    IF last.eventType \in KnownCodes(last.fn)
    THEN /\ last.result.t = "str"
         /\ last.result.v \in DeclaredStates(last.fn)
    ELSE last.result = Null

\* a known code was mapped to a state that differs from its suffix
C18_Witness ==
  /\ last.kind = "mapped" /\ last.fn = "online"
  /\ last.eventType = "basic_tx.funds_refunded"
  /\ last.result = Str("payment_refunded")

\* a code of the other flow was mapped to null
C18_WitnessNull ==
  /\ last.kind = "mapped" /\ last.fn = "online"
  /\ last.eventType = "p2p_tx.joined"
  /\ last.result = Null

\* the adjacency table of a flow
TransitionsOf(flow) ==
  IF flow = "online" THEN onlineStateTransitions ELSE f2fStateTransitions

\* C19: after every chain of accepted transitions the current state is a
\* key of its flow's table, and so is every successor the table lists for it
C19_NoDanglingTransition ==
  last.kind = "tx" =>
    LET table == TransitionsOf(last.flow) IN
      /\ last.state \in DOMAIN table
      /\ \A i \in 1..Len(table[last.state]) :
           table[last.state][i] \in DOMAIN table

\* a chain of four accepted transitions ended in a state without successors
C19_Witness ==
  /\ last.kind = "tx" /\ last.flow = "online" /\ last.hops >= 4
  /\ last.state = "payment_refunded"

(***************************************************************************)
(* Properties of construction                                              *)
(***************************************************************************)
\* the pattern string compileSecurityMap builds for a parameterized path
PatternStringOf(path) == "^" \o regexPathOf(path) \o "$"

\* the map has a parameterized path whose pattern string has a character
\* outside the safe set
HasUnsafePattern(map) ==
  /\ map # Undefined
  /\ \E i \in 1..Len(map.entries) :
       LET path == map.entries[i].path IN
         /\ Includes(path, "{")
         /\ \E j \in 1..Len(PatternStringOf(path)) :
              Ch(PatternStringOf(path), j) \notin SafePatternChars

\* C20: construction with a security map that has an unsafe parameterized
\* path throws and returns no client, so nothing is ever dispatched; and
\* whatever is dispatched runs with a completely compiled map
C20_UnsafePatternFailsConstruction ==
  /\ (last.kind = "construct" /\ HasUnsafePattern(last.securityMap)) =>
       /\ ~last.outcome.ok
       /\ target = NoClient
       /\ compiledSecurityMap = Undefined
       /\ requests = EmptyBag
  /\ (requests # EmptyBag \/ last.kind = "settled") =>
       /\ compiledSecurityMap # Undefined
       /\ compiledSecurityMap.ok
       /\ "raw" \in DOMAIN target

\* construction was given a safe exact path followed by an unsafe
\* parameterized one and failed
C20_Witness ==
  /\ last.kind = "construct"
  /\ HasUnsafePattern(last.securityMap)
  /\ Len(last.securityMap.entries) = 2
  /\ last.securityMap.entries[1].path = "/charge"
  /\ ~last.outcome.ok

\* a map whose only unsafe character is in an exact path constructs a
\* client that dispatches
C20_WitnessExact ==
  /\ last.kind = "settled"
  /\ "/a b" \in DOMAIN compiledSecurityMap.exact

(***************************************************************************)
(* Properties of the base path                                             *)
(***************************************************************************)
\* the prefix the options call for: the basePath option, else the path of
\* apiUrl, else the default
ExpectedBasePath(apiUrl, basePathOption) ==
  IF basePathOption # Undefined THEN normalizeBasePath(basePathOption)
  ELSE IF parseURL(apiUrl).ok /\ parseURL(apiUrl).pathname # "/"
  THEN removeTrailingSlash(parseURL(apiUrl).pathname)
  ELSE "/api/v4"

\* the path of the operation below the base path
RelativePath(call) ==
  IF call[1] = "basic_getCharge" THEN "/charge"
  ELSE IF call[1] = "basic_createTransaction" THEN "/transactions"
  ELSE "/p2p/42/notes/x"

\* C21: the base path is the basePath option when one is given, else the
\* path inferred from a parseable apiUrl with a non-root path, else /api/v4;
\* it prefixes the path of every operation, and construction succeeds
\* whether or not apiUrl parses
C21_BasePathPrecedence ==
  /\ last.kind \in {"configured", "based"} =>
       /\ basePath = ExpectedBasePath(last.apiUrl, last.basePathOption)
       /\ "raw" \in DOMAIN target
  /\ last.kind = "based" =>
       /\ last.sent.ok
       /\ last.sent.v.path =
            ExpectedBasePath(last.apiUrl, last.basePathOption)
              \o RelativePath(last.call)

\* an explicit basePath won over the path of apiUrl
C21_Witness ==
  /\ last.kind = "based"
  /\ last.apiUrl = "https://dev.trustap.com/api/v1/"
  /\ last.basePathOption = Str(" v2/ ")
  /\ last.sent.ok /\ last.sent.v.path = "/v2/charge"

\* an apiUrl that does not parse gave the default prefix
C21_WitnessUnparsed ==
  /\ last.kind = "based"
  /\ last.apiUrl = "not a url"
  /\ last.sent.ok /\ last.sent.v.path = "/api/v4/p2p/42/notes/x"

(***************************************************************************)
(* Properties of the pattern scan                                          *)
(***************************************************************************)
\* positions of the parameterized entries that match pathname and declare
\* method
Qualifying(map, pathname, method) ==
  {i \in PatternsAt(map, pathname) : method \in DOMAIN EntriesOf(map)[i].methods}

\* no placeholder-free entry for pathname declares method
ExactMiss(map, pathname, method) ==
  \A i \in ExactAt(map, pathname) : method \notin DOMAIN EntriesOf(map)[i].methods

\* C22: on an exact miss the lookup returns the method entry of the first
\* parameterized entry, in declaration order, that matches the pathname and
\* declares the method, an empty list included, and the empty list when
\* there is none
C22_FirstQualifyingPattern ==
  (last.kind = "lookup" /\ ExactMiss(last.map, last.pathname, last.method)) =>
    LET q == Qualifying(last.map, last.pathname, last.method) IN
      IF q = {} THEN last.result = <<>>
      ELSE \E i \in q :
             /\ \A j \in q : i <= j
             /\ last.result = last.map.entries[i].methods[last.method]

\* an entry with an explicitly empty list stood before a qualifying entry
\* with schemes and ended the scan
C22_Witness ==
  /\ last.kind = "lookup"
  /\ ExactMiss(last.map, last.pathname, last.method)
  /\ last.result = <<>>
  /\ \E i, j \in Qualifying(last.map, last.pathname, last.method) :
       /\ i < j
       /\ last.map.entries[i].methods[last.method] = <<>>
       /\ last.map.entries[j].methods[last.method] # <<>>

\* a matching entry that does not declare the method was skipped
C22_WitnessSkipped ==
  /\ last.kind = "lookup"
  /\ ExactMiss(last.map, last.pathname, last.method)
  /\ last.result # <<>>
  /\ \E i \in PatternsAt(last.map, last.pathname) :
     \E j \in Qualifying(last.map, last.pathname, last.method) :
       /\ i < j
       /\ last.method \notin DOMAIN last.map.entries[i].methods

(***************************************************************************)
(* Properties of unresolved path parameters                                *)
(***************************************************************************)
\* the placeholders of the operation's path template
PlaceholdersOf(opId) ==
  IF opId = "p2p_getNote" THEN {"id", "n"} ELSE {"userId"}

\* the caller left the parameter out or gave null or undefined for it
Unresolved(options, name) ==
  LET pathParams == Prop(Prop(options, "params"), "path") IN
    \/ ~HasOwn(pathParams, name)
    \/ pathParams.o[name] \in {Null, Undefined}

\* C23: the URL the transport builds for the request contains the literal
\* placeholder of every path parameter that is missing, null or undefined
\* (read on the URL string, before the URL parser percent-encodes braces)
C23_AsStated ==
  last.kind = "request" =>
    \A name \in PlaceholdersOf(last.opId) :
      Unresolved(last.options, name)
        => Includes(last.urlString, "{" \o name \o "}")

\* the handler itself leaves the placeholder of an unresolved parameter in
\* the path it hands to the transport
PlaceholderKeptByHandler ==
  last.kind = "dispatched" =>
    /\ last.sent.ok
    /\ \A name \in PlaceholdersOf(last.opId) :
         Unresolved(last.options, name)
           => Includes(last.sent.v.path, "{" \o name \o "}")

\* the transport wrote the text null where the placeholder stood
NullSubstituted ==
  /\ last.kind = "request" /\ last.opId = "oauth_getUser"
  /\ last.path = "/api/v1/users/{userId}"
  /\ last.url = "https://dev.trustap.com/api/v1/users/null"

(***************************************************************************)
(* Properties of the caller's objects                                      *)
(***************************************************************************)
\* C24: after normalizeRequestOptions the caller's options object and its
\* params object have the keys and values they had before; the result read
\* through its references is the normalized value
C24_ArgumentUntouched ==
  last.kind = "heap" =>
    /\ Len(last.after) >= Len(last.before)
    /\ \A a \in 1..Len(last.before) : last.after[a] = last.before[a]
    /\ Deref(last.after, last.result) = normalizeRequestOptions(last.options)

\* a legacy query was moved under params of the result while the caller's
\* options kept query and the caller's params stayed without it
C24_Witness ==
  /\ last.kind = "heap"
  /\ Len(last.before) = 2
  /\ "query" \in DOMAIN last.after[1]
  /\ "query" \notin DOMAIN last.after[2]
  /\ last.result.t = "ref"
  /\ "query" \notin DOMAIN last.after[last.result.a]
  /\ HasOwn(Prop(Deref(last.after, last.result), "params"), "query")

(***************************************************************************)
(* Properties of the middleware hooks                                      *)
(***************************************************************************)
\* the ids of the middlewares that have the hook, in registration order
RECURSIVE HookIds(_, _)
HookIds(mws, hook) ==
  IF mws = <<>> THEN <<>>
  ELSE IF Head(mws)[hook] = "none" THEN HookIds(Tail(mws), hook)
  ELSE <<Head(mws).id>> \o HookIds(Tail(mws), hook)

\* C25: a request is handed to fetch only after every registered onRequest
\* hook has returned, each fed the request of the one before it in
\* registration order, and with no hook throwing; a call resolves only after
\* fetch and after every onResponse hook has returned in registration order
C25_HooksInRegistrationOrder ==
  [][/\ \A r \in BagToSet(requests') :
          (r.pc = "fetch" /\ CopiesIn(r, requests') > CopiesIn(r, requests)) =>
            /\ r.via = HookIds(middleware, "onRequest")
            /\ FirstThrowing(middleware, "onRequest") = 0
     /\ (Settles /\ last'.outcome.ok) =>
          /\ last'.fetched
          /\ last'.outcome.v.via = HookIds(middleware, "onResponse")
          /\ FirstThrowing(middleware, "onResponse") = 0]_vars

\* a request went to fetch through two different hooks in the order of
\* their registration, the second registered first
C25_Witness ==
  /\ middleware # <<>> /\ Len(middleware) = 2
  /\ middleware[1].id = "m4" /\ middleware[2].id = "m1"
  /\ \E r \in BagToSet(requests) : r.pc = "fetch" /\ r.via = <<"m4", "m1">>

\* a call resolved through two response hooks
C25_WitnessResponse ==
  /\ last.kind = "settled" /\ last.fetched /\ last.outcome.ok
  /\ last.outcome.v.via = <<"m1", "m4">>

(***************************************************************************)
(* Properties of the access-token supplier                                 *)
(***************************************************************************)
\* C26: getAccessToken is awaited at most once for a request (a request
\* waits for it only while it has no answer yet), and never for a request
\* that came with an Authorization header or that was given a Basic header
C26_SupplierOnlyWhenNeeded ==
  \A r \in BagToSet(requests) :
    /\ r.pc = "token" =>
         /\ r.token = Pending
         /\ r.auth = NoHeader
    /\ r.token # NotAsked =>
         /\ hasGetAccessToken
         /\ r.inAuth = NoHeader
         /\ r.auth.scheme \in {"none", "Bearer"}
    /\ (r.inAuth # NoHeader \/ r.auth.scheme = "Basic") => r.token = NotAsked

\* with a supplier configured, one request got Basic and another a custom
\* Authorization without the supplier being asked, and a third got the
\* supplier's answer
C26_Witness ==
  /\ hasGetAccessToken
  /\ \E r1, r2 \in BagToSet(requests) :
       /\ r1.auth.scheme = "Basic" /\ r1.token = NotAsked
       /\ r2.inAuth = CustomHeader /\ r2.token = NotAsked
  /\ last.kind = "settled" /\ last.token = Str("tokA")

(***************************************************************************)
(* Properties of the shape of the transition tables                        *)
(***************************************************************************)
\* the states the table lists as successors of a state of the set
SuccessorsOf(table, states) ==
  UNION {{table[st][i] : i \in 1..Len(table[st])} :
           st \in states \cap DOMAIN table}

\* the states reached from a state of the set by zero or more transitions
RECURSIVE ClosureOf(_, _)
ClosureOf(table, states) ==
  LET next == states \cup SuccessorsOf(table, states) IN
    IF next = states THEN states ELSE ClosureOf(table, next)

\* the states reached from the state by one or more transitions
ReachableFrom(table, from) == ClosureOf(table, SuccessorsOf(table, {from}))

\* C27: no state of either table reaches itself through one or more valid
\* transitions, and a chain of accepted transitions from any state has at
\* most (number of declared states - 1) steps, a chain of that length ending
\* in a state without successors
C27_TablesAcyclic ==
  last.kind = "tx" =>
    LET table == TransitionsOf(last.flow)
        longest == Cardinality(DOMAIN table) - 1 IN
      /\ last.state \notin ReachableFrom(table, last.state)
      /\ last.hops <= longest
      /\ last.hops = longest => table[last.state] = <<>>

\* the longest chain of the face-to-face table was walked: seven accepted
\* transitions from created to funds_released, which has no successors
C27_Witness ==
  /\ last.kind = "tx" /\ last.flow = "f2f" /\ last.hops = 7
  /\ last.state = "funds_released"
  /\ f2fStateTransitions[last.state] = <<>>

(***************************************************************************)
(* Properties of the mapped states and the tables                          *)
(***************************************************************************)
\* the states a transaction of the flow can be in: created, and whatever
\* the flow's table reaches from it
ReachableFromCreated(flow) ==
  {"created"} \cup ReachableFrom(TransitionsOf(flow), "created")

\* C28 as the documentation states it: the state the online or the
\* face-to-face mapping returns for a known code is reachable from created
\* through the transitions of the same flow's table
C28_AsStated ==
  (/\ last.kind = "mapped" /\ last.fn \in {"online", "f2f"}
   /\ last.result # Null)
    => last.result.v \in ReachableFromCreated(last.fn)

\* what the code has: the face-to-face mapping returns reachable states only
C28_F2FMappedReachable ==
  (/\ last.kind = "mapped" /\ last.fn = "f2f" /\ last.result # Null)
    => last.result.v \in ReachableFromCreated(last.fn)

\* the online mapping returned rejected, which no online state lists as a
\* successor
C28_OnlineRejectedMapped ==
  /\ last.kind = "mapped" /\ last.fn = "online"
  /\ last.eventType = "basic_tx.rejected"
  /\ last.result = Str("rejected")
  /\ \A st \in DOMAIN onlineStateTransitions :
       ~ArrayIncludes(onlineStateTransitions[st], "rejected")

(***************************************************************************)
(* Properties of the two online mappings                                   *)
(***************************************************************************)
\* C29: whatever mapWebhookToTrustapState returned for an event type is what
\* mapWebhookToOnlineState returns for it, and the other way round: the same
\* state, or null from both
C29_SameMapping ==
  /\ (last.kind = "mapped" /\ last.fn = "trustap")
       => last.result = mapWebhookToOnlineState(last.eventType)
  /\ (last.kind = "mapped" /\ last.fn = "online")
       => last.result = mapWebhookToTrustapState(last.eventType)

\* mapWebhookToTrustapState returned a state for a known code, the one
\* mapWebhookToOnlineState returns
C29_Witness ==
  /\ last.kind = "mapped" /\ last.fn = "trustap"
  /\ last.eventType = "basic_tx.funds_refunded"
  /\ last.result = Str("payment_refunded")
  /\ mapWebhookToOnlineState(last.eventType) = Str("payment_refunded")

\* mapWebhookToTrustapState returned null for a face-to-face code, as
\* mapWebhookToOnlineState does
C29_WitnessNull ==
  /\ last.kind = "mapped" /\ last.fn = "trustap"
  /\ last.eventType = "p2p_tx.joined"
  /\ last.result = Null
  /\ mapWebhookToOnlineState(last.eventType) = Null

(***************************************************************************)
(* Properties of the compiled patterns                                     *)
(***************************************************************************)
\* s is the template with every {identifier} placeholder replaced by a
\* non-empty text without a slash, every other character kept as it is
RECURSIVE TemplateInstance(_, _)
TemplateInstance(template, s) ==
  IF template = "" THEN s = ""
  ELSE IF PlaceholderAt(template, 1) > 0
  THEN \E k \in 1..Len(s) :
         /\ \A j \in 1..k : Ch(s, j) # "/"
         /\ TemplateInstance(Slice(template, PlaceholderAt(template, 1)),
                             Slice(s, k))
  ELSE /\ s # ""
       /\ Ch(s, 1) = Ch(template, 1)
       /\ TemplateInstance(Slice(template, 1), Slice(s, 1))

\* the lookup fell through to the patterns and took its result from the
\* parameterized entry at position i
AppliedPattern(i) ==
  /\ last.kind = "lookup"
  /\ ExactMiss(last.map, last.pathname, last.method)
  /\ i \in Qualifying(last.map, last.pathname, last.method)
  /\ \A j \in Qualifying(last.map, last.pathname, last.method) : i <= j

\* C30 as the documentation states it: the parameterized entry a lookup
\* takes its result from has a template the pathname is an instance of, the
\* characters outside the placeholders being equal
C30_AsStated ==
  \A i \in 1..Len(EntriesOf(IF last.kind = "lookup" THEN last.map
                            ELSE Undefined)) :
    AppliedPattern(i) =>
      TemplateInstance(last.map.entries[i].path, last.pathname)

\* what the code has: the pathname matches the entry's regular expression,
\* in which a dot of the template stands for any character
C30_AppliedPatternMatches ==
  \A i \in 1..Len(EntriesOf(IF last.kind = "lookup" THEN last.map
                            ELSE Undefined)) :
    AppliedPattern(i) =>
      RegexTest(PatternStringOf(last.map.entries[i].path), last.pathname)

\* an entry with a dot in its template gave its schemes to a pathname that
\* has another character in the place of the dot
C30_DotMatchedAnyCharacter ==
  /\ last.kind = "lookup"
  /\ last.pathname = "/files/f1xjson"
  /\ last.result = <<"APIKey">>
  /\ \E i \in 1..Len(last.map.entries) :
       /\ AppliedPattern(i)
       /\ last.map.entries[i].path = "/files/{id}.json"

====
